---------------------------- MODULE Spec2Model ----------------------------
(***************************************************************************)
(* Model of the wiki_bot text engine (src/replace_templates.py with the    *)
(* defaults of src/config.py) and of the three batch scripts that edit     *)
(* category pages (src/category_diffusion_bot.py, src/replace_catdiffuse.py *)
(* and main of src/replace_templates.py).                                  *)
(*                                                                         *)
(* A Python str is a sequence of one-character strings.  Offsets are the   *)
(* 0-based offsets of Python; a span is [start, end) as re.Match reports   *)
(* it.  The regular expressions are translated construct by construct,     *)
(* with re.IGNORECASE as a comparison of lower-cased characters.           *)
(***************************************************************************)
EXTENDS Integers, Sequences, FiniteSets, TLC

VARIABLES
    pc,                \* "ready" before the call, "scanned" once the templates
                       \* are found, "done" after the call returned
    text,              \* replace_templates: argument text
    source_templates,  \* replace_templates: argument source_templates
    default_limit,     \* replace_templates: argument default_limit
    target_exists,     \* replace_templates: local target_exists
    source_found,      \* replace_templates: local source_found (sorted)
    edited,            \* replace_templates: local text before the cleanup
    new_text,          \* replace_templates: returned text
    changed,           \* replace_templates: returned changed
    action,            \* replace_templates: returned description
    name,              \* normalize_template_name: argument name
    normalized,        \* normalize_template_name: returned value
    renormalized,      \* normalize_template_name applied to that value
    tmpl,              \* extract_limit_from_template: argument text
    tmpl_name,         \* extract_limit_from_template: argument template_name
    extracted,         \* extract_limit_from_template: returned value
    script,            \* the script whose main runs ("none": a single call)
    parent_title,      \* remove_category_from_parent: parent_category.title()
    dry_run,           \* dry_run / args.dry_run
    preserve_params,   \* find_and_replace_templates: argument preserve_params
    threshold,         \* threshold / args.threshold / args.min
    args_limit,        \* args.limit (0: no limit)
    n_pages,           \* number of pages the listing of the run yields
    page_text,         \* the wikitext the site stores for the current page
    fault,             \* the exception the site raises for the current page
    n_files,           \* number of file members of the current category
    count,             \* count_files_in_category: local count
    file_count,        \* main: local file_count (None: not obtained)
    result,            \* value returned by remove_category_from_parent or
                       \* process_category
    detected_threshold, \* find_and_replace_templates: third returned value
    page,              \* number of pages taken from the listing so far
    src,               \* replace_catdiffuse.main: index of src in the list
    processed,         \* main: local processed
    removed,           \* category_diffusion_bot.main: local removed
    skipped,           \* category_diffusion_bot.main: local skipped
    updated,           \* replace_templates.main: local updated
    total_candidates,  \* replace_catdiffuse.main: local total_candidates
    events             \* what the run did so far: "page" (the loop took a
                       \* page), "save" (page.save was called), "caught"
                       \* (an exception was caught), "sleep" (time.sleep
                       \* was called)

engine_vars == <<text, source_templates, default_limit, target_exists,
                 source_found, edited, new_text, changed, action>>
normalize_vars == <<name, normalized, renormalized>>
extract_vars == <<tmpl, tmpl_name, extracted>>
args_vars == <<script, parent_title, dry_run, preserve_params, threshold,
               args_limit>>
site_vars == <<n_pages, page_text, fault, n_files>>
call_vars == <<count, file_count, result, detected_threshold>>
loop_vars == <<page, src, processed, removed, skipped, updated,
               total_candidates>>
batch_vars == <<args_vars, site_vars, call_vars, loop_vars, events>>
vars == <<pc, engine_vars, normalize_vars, extract_vars, batch_vars>>

----------------------------------------------------------------------------
(* Bounds of the model                                                     *)

MaxPieces == 3
MaxNameLen == 3
MaxArgs == 3
MaxTagPieces == 3
MaxPagePieces == 1
MaxThreshold == 2
MaxFindPieces == 2
MaxPages == 2
MaxLimit == 1

----------------------------------------------------------------------------
(* Python str and int primitives                                           *)

\* Optional[int]: None is encoded as -1 (every extracted limit is >= 0)
None == -1

\* str.lower() of one character
Lower(c) ==
    CASE c = "A" -> "a" [] c = "B" -> "b" [] c = "C" -> "c" [] c = "D" -> "d"
      [] c = "E" -> "e" [] c = "F" -> "f" [] c = "G" -> "g" [] c = "H" -> "h"
      [] c = "I" -> "i" [] c = "J" -> "j" [] c = "K" -> "k" [] c = "L" -> "l"
      [] c = "M" -> "m" [] c = "N" -> "n" [] c = "O" -> "o" [] c = "P" -> "p"
      [] c = "Q" -> "q" [] c = "R" -> "r" [] c = "S" -> "s" [] c = "T" -> "t"
      [] c = "U" -> "u" [] c = "V" -> "v" [] c = "W" -> "w" [] c = "X" -> "x"
      [] c = "Y" -> "y" [] c = "Z" -> "z" [] OTHER -> c

\* the class \s of re (and the characters str.strip() removes)
IsSpace(c) == c \in {" ", "\t", "\n", "\r", "\f"}

\* the class \d of re
IsDigit(c) == c \in {"0", "1", "2", "3", "4", "5", "6", "7", "8", "9"}

DigitVal(c) ==
    CASE c = "0" -> 0 [] c = "1" -> 1 [] c = "2" -> 2 [] c = "3" -> 3
      [] c = "4" -> 4 [] c = "5" -> 5 [] c = "6" -> 6 [] c = "7" -> 7
      [] c = "8" -> 8 [] c = "9" -> 9

DigitChar(d) == <<"0", "1", "2", "3", "4", "5", "6", "7", "8", "9">>[d + 1]

\* int(s) for a string of decimal digits
RECURSIVE PyInt(_)
PyInt(s) ==
    IF s = <<>> THEN 0
    ELSE 10 * PyInt(SubSeq(s, 1, Len(s) - 1)) + DigitVal(s[Len(s)])

\* str(n), the conversion an f-string applies to an int
RECURSIVE PyStr(_)
PyStr(n) ==
    IF n < 0 THEN <<"-">> \o PyStr(0 - n)
    ELSE IF n < 10 THEN <<DigitChar(n)>>
    ELSE PyStr(n \div 10) \o <<DigitChar(n % 10)>>

\* a slice index of Python: negative counts from the end, then clamped
SliceIndex(t, i) ==
    IF i < 0 THEN (IF i + Len(t) < 0 THEN 0 ELSE i + Len(t))
    ELSE IF i > Len(t) THEN Len(t) ELSE i

\* t[a:b]
Slice(t, a, b) == SubSeq(t, SliceIndex(t, a) + 1, SliceIndex(t, b))

\* t[:b] and t[a:]
SliceTo(t, b) == Slice(t, 0, b)
SliceFrom(t, a) == SubSeq(t, SliceIndex(t, a) + 1, Len(t))

\* the character at 0-based offset i, or "" past the end of the text
At(t, i) == IF i >= 0 /\ i < Len(t) THEN t[i + 1] ELSE ""

\* a literal of re.escape(...) matches at offset i under re.IGNORECASE
LitAt(t, i, lit) ==
    /\ i + Len(lit) <= Len(t)
    /\ \A k \in 1..Len(lit) : Lower(t[i + k]) = Lower(lit[k])

\* offset of the first character at or after i that is not in \s
RECURSIVE SkipSpace(_, _)
SkipSpace(t, i) == IF IsSpace(At(t, i)) THEN SkipSpace(t, i + 1) ELSE i

\* offset of the first character at or after i that is not in \d
RECURSIVE SkipDigits(_, _)
SkipDigits(t, i) == IF IsDigit(At(t, i)) THEN SkipDigits(t, i + 1) ELSE i

\* offset of the first "}" at or after i, Len(t) if there is none: [^\}]*
RECURSIVE SkipNotBrace(_, _)
SkipNotBrace(t, i) ==
    IF i >= Len(t) \/ At(t, i) = "}" THEN i ELSE SkipNotBrace(t, i + 1)

\* the offsets after "{{" \s* NAME, one per number of spaces \s* may take;
\* greedy \s* tries the longest run first, so a match uses the largest one
AfterName(t, i, nm) ==
    IF At(t, i) = "{" /\ At(t, i + 1) = "{"
    THEN {j + Len(nm) : j \in {k \in (i + 2)..SkipSpace(t, i + 2) : LitAt(t, k, nm)}}
    ELSE {}

Max(S) == CHOOSE x \in S : \A y \in S : y <= x
Least(S) == CHOOSE x \in S : \A y \in S : x <= y

NoMatch == -1

----------------------------------------------------------------------------
(* src/config.py                                                           *)

SOURCE_TEMPLATES ==
    << <<"C", "a", "t", "D", "i", "f", "f", "u", "s", "e">>,
       <<"C", "a", "t", " ", "d", "i", "f", "f", "u", "s", "e">>,
       <<"C", "a", "t", "e", "g", "o", "r", "y", " ", "d", "i", "f", "f", "u", "s", "e">>,
       <<"C", "a", "t", "d", "i", "f", "f", "u", "s", "e">> >>

TARGET_TEMPLATE ==
    <<"D", "i", "f", "f", "u", "s", "i", "o", "n", " ", "b", "y", " ",
      "c", "o", "n", "d", "i", "t", "i", "o", "n">>

DEFAULT_LIMIT == 200

----------------------------------------------------------------------------
(* normalize_template_name                                                 *)

\* offset of the first ":" of s, NoMatch if there is none
RECURSIVE FindColon(_, _)
FindColon(s, i) ==
    IF i >= Len(s) THEN NoMatch
    ELSE IF At(s, i) = ":" THEN i ELSE FindColon(s, i + 1)

\* str.strip()
RECURSIVE Strip(_)
Strip(s) ==
    IF s = <<>> THEN s
    ELSE IF IsSpace(s[1]) THEN Strip(Tail(s))
    ELSE IF IsSpace(s[Len(s)]) THEN Strip(SubSeq(s, 1, Len(s) - 1))
    ELSE s

normalize_template_name(nm) ==
    LET c == FindColon(nm, 0)
        rest == IF c # NoMatch THEN SliceFrom(nm, c + 1) ELSE nm
        stripped == Strip(rest)
    IN  [k \in 1..Len(stripped) |->
            IF Lower(stripped[k]) = "_" THEN " " ELSE Lower(stripped[k])]

----------------------------------------------------------------------------
(* extract_limit_from_template                                             *)

LIMIT_WORD == <<"l", "i", "m", "i", "t">>

\* r'\{\{\s*NAME\s*\|\s*(\d+)\s*\}\}' tried with NAME ending at offset j:
\* the span of group 1, or <<>> when the pattern does not match there
NumberedAt(t, j) ==
    LET k == SkipSpace(t, j)
        d0 == SkipSpace(t, k + 1)
        d1 == SkipDigits(t, d0)
        e == SkipSpace(t, d1)
    IN  IF At(t, k) = "|" /\ d1 > d0 /\ At(t, e) = "}" /\ At(t, e + 1) = "}"
        THEN <<d0, d1>> ELSE <<>>

\* r'\{\{\s*NAME\s*\|\s*limit\s*=\s*(\d+)' tried with NAME ending at offset j
NamedAt(t, j) ==
    LET k == SkipSpace(t, j)
        l == SkipSpace(t, k + 1)
        m == SkipSpace(t, l + Len(LIMIT_WORD))
        d0 == SkipSpace(t, m + 1)
        d1 == SkipDigits(t, d0)
    IN  IF At(t, k) = "|" /\ LitAt(t, l, LIMIT_WORD) /\ At(t, m) = "=" /\ d1 > d0
        THEN <<d0, d1>> ELSE <<>>

\* re.search: group 1 of the leftmost match at or after offset i, or <<>>
RECURSIVE SearchNumbered(_, _, _)
SearchNumbered(t, nm, i) ==
    IF i > Len(t) THEN <<>>
    ELSE LET ok == {j \in AfterName(t, i, nm) : NumberedAt(t, j) # <<>>}
         IN  IF ok # {} THEN NumberedAt(t, Max(ok))
             ELSE SearchNumbered(t, nm, i + 1)

RECURSIVE SearchNamed(_, _, _)
SearchNamed(t, nm, i) ==
    IF i > Len(t) THEN <<>>
    ELSE LET ok == {j \in AfterName(t, i, nm) : NamedAt(t, j) # <<>>}
         IN  IF ok # {} THEN NamedAt(t, Max(ok))
             ELSE SearchNamed(t, nm, i + 1)

extract_limit_from_template(t, template_name) ==
    LET g1 == SearchNumbered(t, template_name, 0)
        g2 == SearchNamed(t, template_name, 0)
    IN  IF g1 # <<>> THEN PyInt(Slice(t, g1[1], g1[2]))
        ELSE IF g2 # <<>> THEN PyInt(Slice(t, g2[1], g2[2]))
        ELSE None

----------------------------------------------------------------------------
(* has_target_template                                                     *)

\* r'\{\{\s*TARGET\s*[\|\}]' matches at offset i
TargetAt(t, i, target) ==
    \E j \in AfterName(t, i, target) : At(t, SkipSpace(t, j)) \in {"|", "}"}

has_target_template(t, target) ==
    \E i \in 0..Len(t) : TargetAt(t, i, target)

----------------------------------------------------------------------------
(* replace_templates                                                       *)

\* r'\{\{\s*SOURCE\s*(\|[^\}]*)?\}\}' continued after SOURCE, which ends at
\* offset j: the end of the match, or NoMatch
SourceTail(t, j) ==
    LET k == SkipSpace(t, j)
        p == SkipNotBrace(t, k + 1)
    IN  IF At(t, k) = "|"
        THEN (IF At(t, p) = "}" /\ At(t, p + 1) = "}" THEN p + 2 ELSE NoMatch)
        ELSE (IF At(t, k) = "}" /\ At(t, k + 1) = "}" THEN k + 2 ELSE NoMatch)

\* the end of the match of the source pattern at offset i, or NoMatch
SourceMatchEnd(t, i, source) ==
    LET ok == {j \in AfterName(t, i, source) : SourceTail(t, j) # NoMatch}
    IN  IF ok = {} THEN NoMatch ELSE SourceTail(t, Max(ok))

\* the offsets at which the source pattern matches
MatchStarts(t, source) ==
    {i \in 0..Len(t) : SourceMatchEnd(t, i, source) # NoMatch}

\* the matches from offset pos on, given the offsets at which the pattern
\* matches: the leftmost one, then those after its end
RECURSIVE FindFrom(_, _, _, _)
RECURSIVE MatchAt(_, _, _, _)
RECURSIVE MatchEnding(_, _, _, _, _)
FindFrom(t, source, starts, pos) ==
    IF \A i \in starts : i < pos THEN <<>>
    ELSE MatchAt(t, source, starts, Least({i \in starts : i >= pos}))

\* the match that starts at offset i and the matches after it
MatchAt(t, source, starts, i) ==
    MatchEnding(t, source, starts, i, SourceMatchEnd(t, i, source))

\* the match [i, e) and the matches after it
MatchEnding(t, source, starts, i, e) ==
    <<[source |-> source, start |-> i, end |-> e]>>
        \o FindFrom(t, source, starts, e)

\* list(re.finditer(pattern, text, re.IGNORECASE)) paired with source:
\* the non-overlapping matches from offset pos on, left to right
FindIter(t, source, pos) == FindFrom(t, source, MatchStarts(t, source), pos)

\* the loop over source_templates that fills source_found
RECURSIVE FindAll(_, _)
FindAll(t, sources) ==
    IF sources = <<>> THEN <<>>
    ELSE FindIter(t, Head(sources), 0) \o FindAll(t, Tail(sources))

\* source_found.sort(key=lambda x: x[1].start()); list.sort is stable
RECURSIVE SortByStart(_)
SortByStart(found) ==
    IF found = <<>> THEN <<>>
    ELSE LET x == found[Len(found)]
             front == SortByStart(SubSeq(found, 1, Len(found) - 1))
             NotAfter(m) == m.start <= x.start
             After(m) == m.start > x.start
         IN  SelectSeq(front, NotAfter) \o <<x>> \o SelectSeq(front, After)

\* match.group(0)
Group0(t, m) == Slice(t, m.start, m.end)

\* for source, match in reversed(source_found): text = text[:s] + text[e:]
RECURSIVE RemoveReversed(_, _)
RemoveReversed(t, found) ==
    IF found = <<>> THEN t
    ELSE LET m == found[Len(found)]
         IN  RemoveReversed(SliceTo(t, m.start) \o SliceFrom(t, m.end),
                            SubSeq(found, 1, Len(found) - 1))

\* the loop over source_found[1:] with its running offset
RECURSIVE RemoveRest(_, _, _, _)
RemoveRest(t, rest, offset, first_start) ==
    IF rest = <<>> THEN t
    ELSE LET m == Head(rest)
             new_start == IF m.start > first_start THEN m.start + offset ELSE m.start
             new_end == IF m.end > first_start THEN m.end + offset ELSE m.end
         IN  RemoveRest(SliceTo(t, new_start) \o SliceFrom(t, new_end),
                        Tail(rest), offset - (new_end - new_start), first_start)

\* a newline after two newlines at least: the part of a run of newlines
\* that r'\n\n+' -> '\n\n' drops
ThirdNewline(t, i) ==
    At(t, i) = "\n" /\ At(t, i - 1) = "\n" /\ At(t, i - 2) = "\n"

\* a space after a space: the part of a run of spaces that r'  +' -> ' '
\* drops
SecondSpace(t, i) == At(t, i) = " " /\ At(t, i - 1) = " "

\* the character at offset i is dropped by the substitution for c
Dropped(t, i, c) == IF c = "\n" THEN ThirdNewline(t, i) ELSE SecondSpace(t, i)

\* the characters of t at the offsets lo .. hi - 1 that the substitution
\* for c keeps, in their order
RECURSIVE KeptRange(_, _, _, _)
KeptRange(t, lo, hi, c) ==
    IF hi <= lo THEN <<>>
    ELSE IF hi = lo + 1
    THEN (IF Dropped(t, lo, c) THEN <<>> ELSE <<At(t, lo)>>)
    ELSE KeptRange(t, lo, (lo + hi) \div 2, c)
           \o KeptRange(t, (lo + hi) \div 2, hi, c)

\* re.sub(r'\n\n+', '\n\n', text)
CollapseBlankLines(t) == KeptRange(t, 0, Len(t), "\n")

\* re.sub(r'  +', ' ', text)
CollapseSpaces(t) == KeptRange(t, 0, Len(t), " ")

NO_SOURCE_ACTION ==
    <<"N", "o", " ", "s", "o", "u", "r", "c", "e", " ", "t", "e", "m", "p",
      "l", "a", "t", "e", "s", " ", "f", "o", "u", "n", "d">>

REMOVED_REDUNDANT_ACTION ==
    <<"R", "e", "m", "o", "v", "e", "d", " ", "r", "e", "d", "u", "n", "d",
      "a", "n", "t", " ", "s", "o", "u", "r", "c", "e", " ", "t", "e", "m",
      "p", "l", "a", "t", "e", "s", " ", "(", "t", "a", "r", "g", "e", "t",
      " ", "a", "l", "r", "e", "a", "d", "y", " ", "e", "x", "i", "s", "t",
      "s", ")">>

\* f"Replaced {first_source} with {target_template}|{limit}" and its suffix
ReplacedAction(first_source, target, limit, n_found) ==
    <<"R", "e", "p", "l", "a", "c", "e", "d", " ">> \o first_source
      \o <<" ", "w", "i", "t", "h", " ">> \o target \o <<"|">> \o PyStr(limit)
      \o (IF n_found > 1
          THEN <<" ", "a", "n", "d", " ", "r", "e", "m", "o", "v", "e", "d", " ">>
                 \o PyStr(n_found - 1)
                 \o <<" ", "d", "u", "p", "l", "i", "c", "a", "t", "e", "(", "s", ")">>
          ELSE <<>>)

\* limit = custom_limit if custom_limit else default_limit
AppliedLimit(custom_limit, dflt) ==
    IF custom_limit # None /\ custom_limit # 0 THEN custom_limit ELSE dflt

\* f'{{{{{target_template}|{limit}}}}}'
Replacement(target, limit) ==
    <<"{", "{">> \o target \o <<"|">> \o PyStr(limit) \o <<"}", "}">>

\* the cleanup and the result of the branch taken when the target exists
CleanRedundant(without) ==
    [edited |-> without,
     text |-> CollapseSpaces(CollapseBlankLines(without)),
     changed |-> TRUE,
     action |-> REMOVED_REDUNDANT_ACTION]

\* the branch taken when the target already exists
RemoveRedundant(t, found) == CleanRedundant(RemoveReversed(t, found))

\* the first occurrence replaced, then the remaining occurrences removed
ReplaceAndRemove(t, found, replacement) ==
    RemoveRest(SliceTo(t, found[1].start) \o replacement
                   \o SliceFrom(t, found[1].end),
               Tail(found),
               Len(replacement) - Len(Group0(t, found[1])),
               found[1].start)

\* the cleanup and the result of the branch that replaces
CleanReplaced(without, description) ==
    [edited |-> without,
     text |-> CollapseBlankLines(without),
     changed |-> TRUE,
     action |-> description]

\* the branch that replaces, from the point where limit is known
ReplaceWithLimit(t, found, target, limit) ==
    CleanReplaced(ReplaceAndRemove(t, found, Replacement(target, limit)),
                  ReplacedAction(found[1].source, target, limit, Len(found)))

\* the branch that replaces the first source template and removes the rest
ReplaceFirstRemoveRest(t, found, target, dflt) ==
    ReplaceWithLimit(t, found, target,
        AppliedLimit(extract_limit_from_template(Group0(t, found[1]), found[1].source),
                     dflt))

\* return text, False, "No source templates found", with text unmodified
NoMatchResult_cleaned(t) ==
    [edited |-> t, text |-> CollapseSpaces(CollapseBlankLines(t)),
     changed |-> FALSE, action |-> NO_SOURCE_ACTION]

\* return text, False, "No source templates found"
NoMatchResult(t) ==
    [edited |-> t, text |-> t, changed |-> FALSE, action |-> NO_SOURCE_ACTION]

\* the returned tuple together with the locals target_exists and source_found
Returned(exists, found, out) ==
    [target_exists |-> exists, source_found |-> found,
     edited |-> out.edited, text |-> out.text,
     changed |-> out.changed, action |-> out.action]

\* the decision once target_exists and the sorted source_found are known
Decide(t, exists, found, target, dflt) ==
    Returned(exists, found,
             IF found = <<>> THEN NoMatchResult(t)
             ELSE IF exists THEN RemoveRedundant(t, found)
             ELSE ReplaceFirstRemoveRest(t, found, target, dflt))

replace_templates(t, sources, target, dflt) ==
    Decide(t, has_target_template(t, target), SortByStart(FindAll(t, sources)),
           target, dflt)

----------------------------------------------------------------------------
(* Inputs of the calls                                                     *)

\* the fragments of wikitext a page text is put together from
Pieces ==
    {
      \* a bare source invocation
      <<"{", "{", "C", "a", "t", "D", "i", "f", "f", "u", "s", "e", "}",
         "}">>,
      \* a second source name with a numbered limit
      <<"{", "{", "C", "a", "t", " ", "d", "i", "f", "f", "u", "s", "e",
         "|", "1", "5", "0", "}", "}">>,
      \* lower-case name, limit 0
      <<"{", "{", "c", "a", "t", "d", "i", "f", "f", "u", "s", "e", "|",
         "0", "}", "}">>,
      \* a keyword limit after another argument
      <<"{", "{", "C", "a", "t", "D", "i", "f", "f", "u", "s", "e", "|",
         "x", "|", "l", "i", "m", "i", "t", "=", "1", "5", "0", "}", "}">>,
      \* the target invocation
      <<"{", "{", "D", "i", "f", "f", "u", "s", "i", "o", "n", " ", "b",
         "y", " ", "c", "o", "n", "d", "i", "t", "i", "o", "n", "|", "2", "0",
         "0", "}", "}">>,
      \* underscore in place of the space
      <<"{", "{", "C", "a", "t", "_", "d", "i", "f", "f", "u", "s", "e",
         "}", "}">>,
      \* namespace prefix
      <<"{", "{", "T", "e", "m", "p", "l", "a", "t", "e", ":", "C", "a",
         "t", "D", "i", "f", "f", "u", "s", "e", "}", "}">>,
      \* a source invocation written directly after the target's name
      <<"{", "{", "D", "i", "f", "f", "u", "s", "i", "o", "n", " ", "b",
         "y", " ", "c", "o", "n", "d", "i", "t", "i", "o", "n", "{", "{",
         "C", "a", "t", " ", "d", "i", "f", "f", "u", "s", "e", "}", "}",
         "}", "}">>,
      \* one space
      <<" ">>,
      \* one blank line
      <<"\n", "\n">>,
      \* plain text
      <<"t", "e", "x", "t">>
    }

\* the concatenation of a sequence of strings
RECURSIVE Concat(_)
Concat(ss) == IF ss = <<>> THEN <<>> ELSE Head(ss) \o Concat(Tail(ss))

\* all sequences over S of length at most n
SeqsUpTo(S, n) == UNION {[1..k -> S] : k \in 0..n}

\* the examples of the module docstring (lines 15-19), input and output
MULTIPLE_EXAMPLE ==
    <<"{", "{", "C", "a", "t", "D", "i", "f", "f", "u", "s", "e", "}", "}",
      " ", "t", "e", "x", "t", " ", "{", "{", "C", "a", "t", " ", "d", "i",
      "f", "f", "u", "s", "e", "}", "}">>

MULTIPLE_EXAMPLE_OUTPUT ==
    <<"{", "{", "D", "i", "f", "f", "u", "s", "i", "o", "n", " ", "b", "y",
      " ", "c", "o", "n", "d", "i", "t", "i", "o", "n", "|", "2", "0", "0",
      "}", "}", " ", "t", "e", "x", "t">>

REDUNDANT_EXAMPLE ==
    <<"{", "{", "D", "i", "f", "f", "u", "s", "i", "o", "n", " ", "b", "y",
      " ", "c", "o", "n", "d", "i", "t", "i", "o", "n", "|", "2", "0", "0",
      "}", "}", " ", "{", "{", "C", "a", "t", "D", "i", "f", "f", "u", "s",
      "e", "}", "}">>

REDUNDANT_EXAMPLE_OUTPUT ==
    <<"{", "{", "D", "i", "f", "f", "u", "s", "i", "o", "n", " ", "b", "y",
      " ", "c", "o", "n", "d", "i", "t", "i", "o", "n", "|", "2", "0", "0",
      "}", "}">>

DocumentedExamples == {MULTIPLE_EXAMPLE, REDUNDANT_EXAMPLE}

Texts ==
    {Concat(ps) : ps \in SeqsUpTo(Pieces, MaxPieces)} \cup DocumentedExamples

\* a list of the tests and the default list of config.py
SourceLists ==
    { <<SOURCE_TEMPLATES[1], SOURCE_TEMPLATES[2]>>,
      SOURCE_TEMPLATES }

DefaultLimits == {DEFAULT_LIMIT}

\* the characters a template name is written with
NameChars == {"A", "b", "_", " ", ":"}

Names == SeqsUpTo(NameChars, MaxNameLen)

\* the arguments a source invocation is written with
ArgTexts ==
    { <<"1", "5", "0">>,
      <<" ", "7", " ">>,
      <<"x">>,
      <<"l", "i", "m", "i", "t", "=", "1", "7", "5">>,
      <<"L", "i", "m", "i", "t", " ", "=", " ", "8">> }

\* "{{" NAME ("|" ARG)* "}}"
RECURSIVE JoinArgs(_)
JoinArgs(args) ==
    IF args = <<>> THEN <<>> ELSE <<"|">> \o Head(args) \o JoinArgs(Tail(args))

Invocation(written, args) ==
    <<"{", "{">> \o written \o JoinArgs(args) \o <<"}", "}">>

WrittenNames ==
    { SOURCE_TEMPLATES[1],
      <<" ", "c", "a", "t", "d", "i", "f", "f", "u", "s", "e", " ">> }

Invocations ==
    {Invocation(w, args) : w \in WrittenNames, args \in SeqsUpTo(ArgTexts, MaxArgs)}

----------------------------------------------------------------------------
(* The calls                                                               *)

EngineIdle ==
    /\ text = <<>> /\ source_templates = <<>> /\ default_limit = DEFAULT_LIMIT
    /\ target_exists = FALSE /\ source_found = <<>> /\ edited = <<>>
    /\ new_text = <<>> /\ changed = FALSE /\ action = <<>>

NormalizeIdle == name = <<>> /\ normalized = <<>> /\ renormalized = <<>>

ExtractIdle == tmpl = <<>> /\ tmpl_name = <<>> /\ extracted = None

\* no script runs and no page is at hand
ArgsIdle ==
    /\ script = "none" /\ parent_title = <<>> /\ dry_run = TRUE
    /\ preserve_params = TRUE
    /\ threshold = 0 /\ args_limit = 0

SiteIdle == n_pages = 0 /\ page_text = <<>> /\ fault = "none" /\ n_files = 0

CallIdle ==
    /\ count = 0 /\ file_count = None /\ result = FALSE
    /\ detected_threshold = None

LoopIdle ==
    /\ page = 0 /\ src = 0 /\ processed = 0 /\ removed = 0 /\ skipped = 0
    /\ updated = 0 /\ total_candidates = 0

BatchIdle == ArgsIdle /\ SiteIdle /\ CallIdle /\ LoopIdle /\ events = <<>>

\* replace_templates(text, source_templates, config.TARGET_TEMPLATE, default_limit)
Init ==
    /\ pc = "ready"
    /\ text \in Texts
    /\ source_templates \in SourceLists
    /\ default_limit \in DefaultLimits
    /\ target_exists = FALSE /\ source_found = <<>> /\ edited = <<>>
    /\ new_text = <<>> /\ changed = FALSE /\ action = <<>>
    /\ NormalizeIdle /\ ExtractIdle /\ BatchIdle

\* lines 132-141: target_exists and source_found are computed from the text
Scan ==
    /\ pc = "ready"
    /\ pc' = "scanned"
    /\ target_exists' = has_target_template(text, TARGET_TEMPLATE)
    /\ source_found' = SortByStart(FindAll(text, source_templates))
    /\ UNCHANGED <<text, source_templates, default_limit, edited, new_text,
                   changed, action, normalize_vars, extract_vars,
                   batch_vars>>

\* return text, changed, action
Return(out) ==
    /\ pc' = "done"
    /\ edited' = out.edited
    /\ new_text' = out.text
    /\ changed' = out.changed
    /\ action' = out.action
    /\ UNCHANGED <<text, source_templates, default_limit, target_exists,
                   source_found, normalize_vars, extract_vars,
                   batch_vars>>

\* the call returns at "if not source_found"
NoMatchCall ==
    /\ pc = "scanned"
    /\ source_found = <<>>
    /\ Return(NoMatchResult(text))

\* the call takes the "if target_exists" branch
RemoveRedundantCall ==
    /\ pc = "scanned"
    /\ source_found # <<>>
    /\ target_exists
    /\ Return(RemoveRedundant(text, source_found))

\* the call takes the else branch
ReplaceFirstRemoveRestCall ==
    /\ pc = "scanned"
    /\ source_found # <<>>
    /\ ~target_exists
    /\ Return(ReplaceFirstRemoveRest(text, source_found, TARGET_TEMPLATE, default_limit))

Next == Scan \/ NoMatchCall \/ RemoveRedundantCall \/ ReplaceFirstRemoveRestCall

Spec == Init /\ [][Next]_vars

\* normalize_template_name(name), and the same function on its result
InitNormalize ==
    /\ pc = "ready"
    /\ name \in Names
    /\ normalized = <<>> /\ renormalized = <<>>
    /\ EngineIdle /\ ExtractIdle /\ BatchIdle

NormalizeCall ==
    /\ pc = "ready"
    /\ pc' = "done"
    /\ normalized' = normalize_template_name(name)
    /\ renormalized' = normalize_template_name(normalize_template_name(name))
    /\ UNCHANGED <<name, engine_vars, extract_vars, batch_vars>>

NextNormalize == NormalizeCall

SpecNormalize == InitNormalize /\ [][NextNormalize]_vars

\* extract_limit_from_template(tmpl, tmpl_name)
InitExtract ==
    /\ pc = "ready"
    /\ tmpl \in Invocations
    /\ tmpl_name = SOURCE_TEMPLATES[1]
    /\ extracted = None
    /\ EngineIdle /\ NormalizeIdle /\ BatchIdle

ExtractCall ==
    /\ pc = "ready"
    /\ pc' = "done"
    /\ extracted' = extract_limit_from_template(tmpl, tmpl_name)
    /\ UNCHANGED <<tmpl, tmpl_name, engine_vars, normalize_vars, batch_vars>>

NextExtract == ExtractCall

SpecExtract == InitExtract /\ [][NextExtract]_vars

----------------------------------------------------------------------------
(* Notions the properties are stated with                                  *)

Done == pc = "done"

\* the call took the removeRedundant branch
TookRemoveRedundant == Done /\ source_found # <<>> /\ target_exists

\* the call took the replaceFirstRemoveRest branch
TookReplaceFirst == Done /\ source_found # <<>> /\ ~target_exists

\* the distinct spans of the occurrences a list of matches records
Spans(found) == {<<found[k].start, found[k].end>> : k \in 1..Len(found)}

\* offset i lies inside a recorded occurrence
Covered(found, i) ==
    \E k \in 1..Len(found) : found[k].start <= i /\ i < found[k].end

\* the characters of t from offset i on that lie outside every occurrence
RECURSIVE KeepOutside(_, _, _)
KeepOutside(t, found, i) ==
    IF i >= Len(t) THEN <<>>
    ELSE (IF Covered(found, i) THEN <<>> ELSE <<At(t, i)>>)
             \o KeepOutside(t, found, i + 1)

\* no two recorded occurrences share a character (found is sorted)
DisjointSpans(found) ==
    \A a, b \in 1..Len(found) : a < b => found[a].end <= found[b].start

\* number of target invocations of a text
TargetCount(t) ==
    Cardinality({i \in 0..Len(t) : TargetAt(t, i, TARGET_TEMPLATE)})

\* the target invocations of a text, each as it is written, left to right
TargetInvocations(t) ==
    LET f == FindIter(t, TARGET_TEMPLATE, 0)
    IN  [k \in 1..Len(f) |-> Group0(t, f[k])]

\* sub occurs in t
Contains(t, sub) ==
    \E i \in 0..(Len(t) - Len(sub)) : Slice(t, i, i + Len(sub)) = sub

\* the override the first occurrence carries, as the engine reads it
FirstOverride ==
    extract_limit_from_template(Group0(text, source_found[1]), source_found[1].source)

\* the name written in the invocation that starts at offset i, as <<name>>,
\* or <<>> when no invocation "{{" NAME ("|" ARGS)? "}}" starts there
RECURSIVE NameEnd(_, _)
NameEnd(t, i) ==
    IF i >= Len(t) \/ At(t, i) \in {"|", "}"} THEN i ELSE NameEnd(t, i + 1)

WrittenName(t, i) ==
    IF At(t, i) = "{" /\ At(t, i + 1) = "{" /\ SourceTail(t, NameEnd(t, i + 2)) # NoMatch
    THEN <<Slice(t, i + 2, NameEnd(t, i + 2))>>
    ELSE <<>>

\* str.split(c)
RECURSIVE Split(_, _)
Split(s, c) ==
    LET NotC(x) == x # c
        k == IF \E i \in 1..Len(s) : s[i] = c
             THEN CHOOSE i \in 1..Len(s) : s[i] = c /\ \A j \in 1..(i - 1) : s[j] # c
             ELSE 0
    IN  IF k = 0 THEN <<s>>
        ELSE <<SubSeq(s, 1, k - 1)>> \o Split(SubSeq(s, k + 1, Len(s)), c)

\* the arguments of a single invocation "{{" NAME ("|" ARG)* "}}"
ArgsOf(inv) == Tail(Split(SubSeq(inv, 3, Len(inv) - 2), "|"))

IsNumber(a) == a # <<>> /\ \A k \in 1..Len(a) : IsDigit(a[k])

\* a positional argument that is a number
IsPositionalNumber(a) == IsNumber(Strip(a))

\* a keyword argument limit=<integer>, the keyword in any letter case
IsLimitKeyword(a) ==
    /\ Len(Split(a, "=")) = 2
    /\ LET key == Strip(Split(a, "=")[1])
       IN  Len(key) = Len(LIMIT_WORD) /\ LitAt(key, 0, LIMIT_WORD)
    /\ IsNumber(Strip(Split(a, "=")[2]))

First(args, Test(_)) == SelectSeq(args, Test)[1]

\* the override of an argument list: the first positional number, otherwise
\* the value of the keyword limit, otherwise None
Override(args) ==
    IF \E k \in 1..Len(args) : IsPositionalNumber(args[k])
    THEN PyInt(Strip(First(args, IsPositionalNumber)))
    ELSE IF \E k \in 1..Len(args) : IsLimitKeyword(args[k])
    THEN PyInt(Strip(Split(First(args, IsLimitKeyword), "=")[2]))
    ELSE None

----------------------------------------------------------------------------
(* category_diffusion_bot.py: remove_category_from_parent                  *)

\* the parent title of the tests and the one main passes
PARENT_TITLE ==
    <<"C", "a", "t", "e", "g", "o", "r", "y", ":", "P", "a", "r", "e", "n",
      "t">>

DIFFUSION_CATEGORY ==
    <<"C", "a", "t", "e", "g", "o", "r", "y", ":", "C", "a", "t", "e", "g",
      "o", "r", "i", "e", "s", " ", "r", "e", "q", "u", "i", "r", "i", "n",
      "g", " ", "t", "e", "m", "p", "o", "r", "a", "r", "y", " ", "d", "i",
      "f", "f", "u", "s", "i", "o", "n">>

\* f"[[{parent_title}]]" and f"[[{parent_title}|"
ParentTag(title) == <<"[", "[">> \o title \o <<"]", "]">>
ParentTagWithPipe(title) == <<"[", "[">> \o title \o <<"|">>

\* sub occurs in t at offset i, compared character by character
StartsAt(t, i, sub) == Slice(t, i, i + Len(sub)) = sub /\ i + Len(sub) <= Len(t)

\* not (parent_tag not in text and parent_tag_with_pipe not in text)
TagPresent(t, title) ==
    Contains(t, ParentTag(title)) \/ Contains(t, ParentTagWithPipe(title))

\* the text from offset i on without the matches of a pattern, given the
\* function from the offsets at which the pattern matches to the ends of
\* the matches: the matches are taken left to right, each search starting
\* at the end of the previous match
RECURSIVE CutMatches(_, _, _)
RECURSIVE CutAt(_, _, _, _)
CutMatches(t, i, ends) ==
    IF \A k \in DOMAIN ends : k < i THEN SliceFrom(t, i)
    ELSE CutAt(t, i, ends, Least({k \in DOMAIN ends : k >= i}))

\* the text before the match at offset k, then the rest without matches
CutAt(t, i, ends, k) == Slice(t, i, k) \o CutMatches(t, ends[k], ends)

\* t.replace(old, ""), the text from offset i on
StrRemove(t, old, i) ==
    CutMatches(t, i, [k \in {j \in 0..Len(t) : StartsAt(t, j, old)}
                         |-> k + Len(old)])

\* offset of the first "]" at or after i, Len(t) if there is none: [^\]]*
RECURSIVE SkipNotBracket(_, _)
SkipNotBracket(t, i) ==
    IF i >= Len(t) \/ At(t, i) = "]" THEN i ELSE SkipNotBracket(t, i + 1)

\* end of the match of \[\[TITLE\|[^\]]*\]\] at offset i, NoMatch if none;
\* the title is matched literally (re.escape, then ":" written as "\:")
PipedTagEnd(t, i, title) ==
    IF StartsAt(t, i, ParentTagWithPipe(title))
    THEN IF StartsAt(t, SkipNotBracket(t, i + Len(title) + 3), <<"]", "]">>)
         THEN SkipNotBracket(t, i + Len(title) + 3) + 2
         ELSE NoMatch
    ELSE NoMatch

\* re.sub(rf'\[\[{pattern}\|[^\]]*\]\]', '', t), the text from offset i on
SubPipedTag(t, title, i) ==
    CutMatches(t, i, [k \in {j \in 0..Len(t) : PipedTagEnd(t, j, title) # NoMatch}
                         |-> PipedTagEnd(t, k, title)])

\* lines 114-126: new_text
RemoveTag(t, title) == SubPipedTag(StrRemove(t, ParentTag(title), 0), title, 0)

\* the exceptions the site raises: on page.get() / page.text, on page.save()
\* and on category.members()
GetFaults == {"NoPageError"}
SaveFaults == {"LockedPageError", "EditConflictError", "OtherPageSaveError"}
CountFaults == {"CountError"}
Faults == {"none"} \cup GetFaults \cup SaveFaults \cup CountFaults

\* the fragments a category page is put together from, for a parent title
TagPieces(title) ==
    { ParentTag(title),
      ParentTagWithPipe(title) \o <<"K", "e", "y", "]", "]">>,
      ParentTagWithPipe(title),
      <<"a", "]", "b">>,
      <<"]", "]">>,
      <<"[", "[", "C", "a", "t", "e", "g", "o", "r", "y", ":", "O", "t", "h",
        "e", "r", "]", "]">>,
      <<"t", "e", "x", "t", "\n">> }

TagTexts(title, n) == {Concat(ps) : ps \in SeqsUpTo(TagPieces(title), n)}

\* the function returns: the value and, when an exception was caught, the
\* record of it
RemoveReturn(value, happened) ==
    /\ pc' = "returned"
    /\ result' = value
    /\ events' = events \o happened

\* page.get() raises: except NoPageError, return False
RemoveGetRaises ==
    /\ pc = "remove"
    /\ script = "category_diffusion_bot"
    /\ fault \in GetFaults
    /\ RemoveReturn(FALSE, <<"caught">>)
    /\ UNCHANGED <<engine_vars, normalize_vars, extract_vars, args_vars,
                   site_vars, count, file_count, detected_threshold,
                   loop_vars>>

\* text = page.get()
RemoveGet ==
    /\ pc = "remove"
    /\ script = "category_diffusion_bot"
    /\ fault \notin GetFaults
    /\ pc' = "got"
    /\ text' = page_text
    /\ UNCHANGED <<source_templates, default_limit, target_exists,
                   source_found, edited, new_text, changed, action,
                   normalize_vars, extract_vars, batch_vars>>

\* the same exit returning True
RemoveAbsent_true ==
    /\ pc = "got"
    /\ script = "category_diffusion_bot"
    /\ ~TagPresent(text, parent_title)
    /\ RemoveReturn(TRUE, <<>>)
    /\ UNCHANGED <<engine_vars, normalize_vars, extract_vars, args_vars,
                   site_vars, count, file_count, detected_threshold,
                   loop_vars>>

\* neither form of the tag is in the text: return False
RemoveAbsent ==
    /\ pc = "got"
    /\ script = "category_diffusion_bot"
    /\ ~TagPresent(text, parent_title)
    /\ RemoveReturn(FALSE, <<>>)
    /\ UNCHANGED <<engine_vars, normalize_vars, extract_vars, args_vars,
                   site_vars, count, file_count, detected_threshold,
                   loop_vars>>

\* lines 114-126: new_text is computed
RemoveSub ==
    /\ pc = "got"
    /\ script = "category_diffusion_bot"
    /\ TagPresent(text, parent_title)
    /\ pc' = "subbed"
    /\ new_text' = RemoveTag(text, parent_title)
    /\ UNCHANGED <<text, source_templates, default_limit, target_exists,
                   source_found, edited, changed, action, normalize_vars,
                   extract_vars, batch_vars>>

\* if new_text == text: return False
RemoveUnchanged ==
    /\ pc = "subbed"
    /\ new_text = text
    /\ RemoveReturn(FALSE, <<>>)
    /\ UNCHANGED <<engine_vars, normalize_vars, extract_vars, args_vars,
                   site_vars, count, file_count, detected_threshold,
                   loop_vars>>

\* if dry_run: return True
RemoveDryRun ==
    /\ pc = "subbed"
    /\ new_text # text
    /\ dry_run
    /\ RemoveReturn(TRUE, <<>>)
    /\ UNCHANGED <<engine_vars, normalize_vars, extract_vars, args_vars,
                   site_vars, count, file_count, detected_threshold,
                   loop_vars>>

\* page.text = new_text; page.save(...); return True
RemoveSave ==
    /\ pc = "subbed"
    /\ new_text # text
    /\ ~dry_run
    /\ fault \notin SaveFaults
    /\ page_text' = new_text
    /\ RemoveReturn(TRUE, <<"save">>)
    /\ UNCHANGED <<engine_vars, normalize_vars, extract_vars, args_vars,
                   n_pages, fault, n_files, count, file_count,
                   detected_threshold, loop_vars>>

\* page.save(...) raises: the except clauses of lines 146-157, return False
RemoveSaveRaises ==
    /\ pc = "subbed"
    /\ new_text # text
    /\ ~dry_run
    /\ fault \in SaveFaults
    /\ RemoveReturn(FALSE, <<"save", "caught">>)
    /\ UNCHANGED <<engine_vars, normalize_vars, extract_vars, args_vars,
                   site_vars, count, file_count, detected_threshold,
                   loop_vars>>

----------------------------------------------------------------------------
(* replace_templates.py: process_category                                  *)

\* the function returns
ProcessReturn(value, happened) ==
    /\ pc' = "returned"
    /\ result' = value
    /\ events' = events \o happened

\* page.text raises: except NoPageError, return False
ProcessGetRaises ==
    /\ pc = "process"
    /\ script = "replace_templates"
    /\ fault \in GetFaults
    /\ ProcessReturn(FALSE, <<"caught">>)
    /\ UNCHANGED <<engine_vars, normalize_vars, extract_vars, args_vars,
                   site_vars, count, file_count, detected_threshold,
                   loop_vars>>

\* text = page.text; replace_templates is called with it (Scan and the
\* three calls above are the steps of that call)
ProcessGet ==
    /\ pc = "process"
    /\ script = "replace_templates"
    /\ fault \notin GetFaults
    /\ pc' = "ready"
    /\ text' = page_text
    /\ UNCHANGED <<source_templates, default_limit, target_exists,
                   source_found, edited, new_text, changed, action,
                   normalize_vars, extract_vars, batch_vars>>

\* if not changed: return True
ProcessUnchanged ==
    /\ pc = "done"
    /\ script = "replace_templates"
    /\ ~changed
    /\ ProcessReturn(TRUE, <<>>)
    /\ UNCHANGED <<engine_vars, normalize_vars, extract_vars, args_vars,
                   site_vars, count, file_count, detected_threshold,
                   loop_vars>>

\* if dry_run: the change is logged; return True
ProcessDryRun ==
    /\ pc = "done"
    /\ script = "replace_templates"
    /\ changed
    /\ dry_run
    /\ ProcessReturn(TRUE, <<>>)
    /\ UNCHANGED <<engine_vars, normalize_vars, extract_vars, args_vars,
                   site_vars, count, file_count, detected_threshold,
                   loop_vars>>

\* the same step taken whatever dry_run is
ProcessSave_always ==
    /\ pc = "done"
    /\ script = "replace_templates"
    /\ changed
    /\ fault \notin SaveFaults
    /\ page_text' = new_text
    /\ ProcessReturn(TRUE, <<"save">>)
    /\ UNCHANGED <<engine_vars, normalize_vars, extract_vars, args_vars,
                   n_pages, fault, n_files, count, file_count,
                   detected_threshold, loop_vars>>

\* page.text = new_text; page.save(...); return True
ProcessSave ==
    /\ pc = "done"
    /\ script = "replace_templates"
    /\ changed
    /\ ~dry_run
    /\ fault \notin SaveFaults
    /\ page_text' = new_text
    /\ ProcessReturn(TRUE, <<"save">>)
    /\ UNCHANGED <<engine_vars, normalize_vars, extract_vars, args_vars,
                   n_pages, fault, n_files, count, file_count,
                   detected_threshold, loop_vars>>

\* page.save(...) raises: the except clauses of lines 255-266, return False
ProcessSaveRaises ==
    /\ pc = "done"
    /\ script = "replace_templates"
    /\ changed
    /\ ~dry_run
    /\ fault \in SaveFaults
    /\ ProcessReturn(FALSE, <<"save", "caught">>)
    /\ UNCHANGED <<engine_vars, normalize_vars, extract_vars, args_vars,
                   site_vars, count, file_count, detected_threshold,
                   loop_vars>>

\* lines 231-250 as main reaches them: "if dry_run: ... else: ... page.save"
ProcessChanged ==
    IF dry_run THEN ProcessDryRun ELSE ProcessSave \/ ProcessSaveRaises

\* the pages process_category is called on
PageTexts ==
    {Concat(ps) : ps \in SeqsUpTo(Pieces, MaxPagePieces)}
        \cup DocumentedExamples

----------------------------------------------------------------------------
(* count_files_in_category (category_diffusion_bot.py, replace_catdiffuse.py) *)

Min(a, b) == IF a <= b THEN a ELSE b

\* the scripts that count the files of a category
CountingScripts == {"category_diffusion_bot", "replace_catdiffuse"}

\* return count
CountReturn(value, happened) ==
    /\ pc' = "counted"
    /\ count' = value
    /\ file_count' = value
    /\ events' = events \o happened

\* the same iteration without "if count > threshold: break"
CountMember_unbounded ==
    /\ pc = "count"
    /\ script \in CountingScripts
    /\ count < n_files
    /\ pc' = "count"
    /\ count' = count + 1
    /\ UNCHANGED <<engine_vars, normalize_vars, extract_vars, args_vars,
                   site_vars, file_count, result, detected_threshold,
                   loop_vars, events>>

\* one iteration of "for _ in category.members(...)": count += 1, and the
\* loop is left when count > threshold
CountMember ==
    /\ pc = "count"
    /\ script \in CountingScripts
    /\ count < n_files
    /\ IF count + 1 > threshold
       THEN CountReturn(count + 1, <<>>)
       ELSE /\ pc' = "count"
            /\ count' = count + 1
            /\ UNCHANGED <<file_count, events>>
    /\ UNCHANGED <<engine_vars, normalize_vars, extract_vars, args_vars,
                   site_vars, result, detected_threshold, loop_vars>>

\* the members are exhausted: return count
CountExhausted ==
    /\ pc = "count"
    /\ script \in CountingScripts
    /\ count = n_files
    /\ CountReturn(count, <<>>)
    /\ UNCHANGED <<engine_vars, normalize_vars, extract_vars, args_vars,
                   site_vars, result, detected_threshold, loop_vars>>

\* category_diffusion_bot: members() raises before the next member; except
\* Exception logs a warning and the count so far is returned
CountRaisesCaught ==
    /\ pc = "count"
    /\ script = "category_diffusion_bot"
    /\ fault \in CountFaults
    /\ CountReturn(count, <<"caught">>)
    /\ UNCHANGED <<engine_vars, normalize_vars, extract_vars, args_vars,
                   site_vars, result, detected_threshold, loop_vars>>

\* replace_catdiffuse: members() raises before the next member; nothing
\* catches the exception and the run ends with it
CountRaises ==
    /\ pc = "count"
    /\ script = "replace_catdiffuse"
    /\ fault \in CountFaults
    /\ pc' = "raised"
    /\ UNCHANGED <<engine_vars, normalize_vars, extract_vars, batch_vars>>

\* the thresholds and the numbers of file members of the model
Thresholds == 0..MaxThreshold
FileNumbers == 0..(MaxThreshold + 2)

\* count_files_in_category(category, threshold) called on its own
InitCount ==
    /\ pc = "count"
    /\ script \in CountingScripts
    /\ parent_title = <<>>
    /\ dry_run = TRUE
    /\ preserve_params = TRUE
    /\ threshold \in Thresholds
    /\ args_limit = 0
    /\ n_pages = 1
    /\ page_text = <<>>
    /\ fault \in {"none"} \cup CountFaults
    /\ n_files \in FileNumbers
    /\ CallIdle /\ LoopIdle /\ events = <<>>
    /\ EngineIdle /\ NormalizeIdle /\ ExtractIdle

NextCount == CountMember \/ CountExhausted \/ CountRaisesCaught \/ CountRaises

SpecCount == InitCount /\ [][NextCount]_vars

----------------------------------------------------------------------------
(* replace_catdiffuse.py: find_and_replace_templates                       *)
(*                                                                         *)
(* mwparserfromhell.parse is modelled for texts whose templates have       *)
(* names without braces and parameters with distinct names: "{{" opens a   *)
(* template when a "}}" closes it, templates nest, "|" separates the       *)
(* parameters and the first "=" of a parameter separates its name from its *)
(* value, both outside nested templates.  str(parsed) writes every node    *)
(* back as it was read.                                                    *)

LowerAll(s) == [k \in 1..Len(s) |-> Lower(s[k])]

\* normalize_template_name of replace_catdiffuse.py: name.strip().lower()
rc_normalize_template_name(nm) == LowerAll(Strip(nm))

TEMPLATE_PREFIX == <<"t", "e", "m", "p", "l", "a", "t", "e", ":">>
THRESHOLD_WORD == <<"t", "h", "r", "e", "s", "h", "o", "l", "d">>
OPEN == <<"{", "{">>
CLOSE == <<"}", "}">>

\* lines 76-77: a leading "template:" is cut off, the rest stripped
StripNamespace(nm) ==
    IF StartsAt(nm, 0, TEMPLATE_PREFIX)
    THEN Strip(SliceFrom(nm, Len(TEMPLATE_PREFIX)))
    ELSE nm

\* offset after the "}}" that closes a template whose body is read from
\* offset j on, NoMatch if nothing closes it
RECURSIVE BodyEnd(_, _)
RECURSIVE AfterNested(_, _)
BodyEnd(t, j) ==
    IF j + 2 > Len(t) THEN NoMatch
    ELSE IF StartsAt(t, j, CLOSE) THEN j + 2
    ELSE IF StartsAt(t, j, OPEN) THEN AfterNested(t, BodyEnd(t, j + 2))
    ELSE BodyEnd(t, j + 1)

\* the body goes on after a nested template that ended at offset e
AfterNested(t, e) == IF e = NoMatch THEN NoMatch ELSE BodyEnd(t, e)

\* end of the template that starts at offset i, NoMatch if none starts there
TemplateEnd(t, i) == IF StartsAt(t, i, OPEN) THEN BodyEnd(t, i + 2) ELSE NoMatch

\* a template starts at offset i and ends at or before stop
TemplateWithin(t, i, stop) ==
    TemplateEnd(t, i) # NoMatch /\ TemplateEnd(t, i) <= stop

\* the offsets in [j, b) of the character c outside nested templates
RECURSIVE TopLevel(_, _, _, _)
TopLevel(t, j, b, c) ==
    IF j >= b THEN <<>>
    ELSE IF TemplateWithin(t, j, b) THEN TopLevel(t, TemplateEnd(t, j), b, c)
    ELSE IF At(t, j) = c THEN <<j>> \o TopLevel(t, j + 1, b, c)
    ELSE TopLevel(t, j + 1, b, c)

\* a Template node: its span and the offsets of the "|" before its params
TemplateAt(t, i) ==
    [start |-> i, end |-> TemplateEnd(t, i),
     pipes |-> TopLevel(t, i + 2, TemplateEnd(t, i) - 2, "|")]

\* parsed.filter_templates(): every template, nested ones included, in the
\* order of their start offsets
RECURSIVE FilterTemplates(_, _)
FilterTemplates(t, i) ==
    IF i >= Len(t) THEN <<>>
    ELSE IF TemplateEnd(t, i) # NoMatch
         THEN <<TemplateAt(t, i)>> \o FilterTemplates(t, i + 1)
         ELSE FilterTemplates(t, i + 1)

\* str(tpl.name)
TplName(t, tp) ==
    Slice(t, tp.start + 2,
          IF tp.pipes = <<>> THEN tp.end - 2 ELSE tp.pipes[1])

\* the span of the k-th parameter of a template
ParamStart(tp, k) == tp.pipes[k] + 1
ParamEnd(tp, k) == IF k < Len(tp.pipes) THEN tp.pipes[k + 1] ELSE tp.end - 2

\* the offsets of the "=" of the k-th parameter (none: positional)
ParamEquals(t, tp, k) == TopLevel(t, ParamStart(tp, k), ParamEnd(tp, k), "=")

\* str(p.name).strip().lower() == 'threshold'
IsThresholdParam(t, tp, k) ==
    /\ ParamEquals(t, tp, k) # <<>>
    /\ LowerAll(Strip(Slice(t, ParamStart(tp, k), ParamEquals(t, tp, k)[1])))
         = THRESHOLD_WORD

\* str(p.value).strip() of a named parameter
ParamValue(t, tp, k) ==
    Strip(Slice(t, ParamEquals(t, tp, k)[1] + 1, ParamEnd(tp, k)))

\* int(...) does not raise ValueError (the values of the model are digits
\* or letters)
HasIntThreshold(t, tp, k) ==
    IsThresholdParam(t, tp, k) /\ IsNumber(ParamValue(t, tp, k))

\* lines 81-89: existing_threshold, the last integer threshold of tpl.params
ExistingThreshold(t, tp) ==
    IF \E k \in 1..Len(tp.pipes) : HasIntThreshold(t, tp, k)
    THEN PyInt(ParamValue(t, tp,
             Max({k \in 1..Len(tp.pipes) : HasIntThreshold(t, tp, k)})))
    ELSE None

\* line 79: tpl_name in src_normal
Recognized(t, tp, names) ==
    \E k \in 1..Len(names) :
        StripNamespace(rc_normalize_template_name(TplName(t, tp)))
            = rc_normalize_template_name(names[k])

\* lines 100-102: the threshold parameter is added unless new_tpl has one
AddedThreshold(t, tp, value, preserve) ==
    IF preserve /\ \E k \in 1..Len(tp.pipes) : IsThresholdParam(t, tp, k)
    THEN <<>>
    ELSE <<"|">> \o THRESHOLD_WORD \o <<"=">>
             \o PyStr(IF ExistingThreshold(t, tp) # None
                      THEN ExistingThreshold(t, tp) ELSE value)

\* str(parsed) after the replacements, for the text from offset i to stop:
\* a recognized template is written as the new template with the copied
\* parameters, in which nested recognized templates are replaced in turn
RECURSIVE Rewrite(_, _, _, _)
RECURSIVE RewriteTemplate(_, _, _)
RECURSIVE CopyParams(_, _, _, _)
Rewrite(t, i, stop, ctx) ==
    IF i >= stop THEN <<>>
    ELSE IF TemplateWithin(t, i, stop)
         THEN RewriteTemplate(t, TemplateAt(t, i), ctx)
                  \o Rewrite(t, TemplateEnd(t, i), stop, ctx)
         ELSE <<At(t, i)>> \o Rewrite(t, i + 1, stop, ctx)

RewriteTemplate(t, tp, ctx) ==
    IF Recognized(t, tp, ctx.names)
    THEN OPEN \o ctx.target
             \o (IF ctx.preserve THEN CopyParams(t, tp, 1, ctx) ELSE <<>>)
             \o AddedThreshold(t, tp, ctx.value, ctx.preserve) \o CLOSE
    ELSE OPEN \o Rewrite(t, tp.start + 2, tp.end - 2, ctx) \o CLOSE

CopyParams(t, tp, k, ctx) ==
    IF k > Len(tp.pipes) THEN <<>>
    ELSE <<"|">> \o Rewrite(t, ParamStart(tp, k), ParamEnd(tp, k), ctx)
             \o CopyParams(t, tp, k + 1, ctx)

\* the recognized templates among the templates of a text
RecognizedIn(t, names) ==
    SelectSeq(FilterTemplates(t, 0), LAMBDA tp : Recognized(t, tp, names))

\* detected_threshold: the existing_threshold of the last template that
\* has one
DetectedThreshold(t, found) ==
    IF \E k \in 1..Len(found) : ExistingThreshold(t, found[k]) # None
    THEN ExistingThreshold(t, found[
             Max({k \in 1..Len(found) : ExistingThreshold(t, found[k]) # None})])
    ELSE None

\* a recognized template lies inside another one: without the copied
\* parameters the inner node is gone from the tree when parsed.replace
\* looks for it, and parsed.replace raises ValueError
ReplaceRaises(found, preserve) ==
    /\ ~preserve
    /\ \E a, b \in 1..Len(found) :
           found[a].start < found[b].start /\ found[b].end < found[a].end

FindResult(t, found, ctx) ==
    [text |-> Rewrite(t, 0, Len(t), ctx),
     changed |-> found # <<>>,
     detected_threshold |-> DetectedThreshold(t, found),
     raised |-> ReplaceRaises(found, ctx.preserve)]

\* find_and_replace_templates(page_text, source_template_names,
\* target_template_name, threshold_value, preserve_params)
find_and_replace_templates(t, names, target, value, preserve) ==
    FindResult(t, RecognizedIn(t, names),
               [names |-> names, target |-> target, value |-> value,
                preserve |-> preserve])

\* the fragments the texts of the calls are put together from
FindPieces ==
    {
      \* a bare source invocation
      <<"{", "{", "C", "a", "t", "D", "i", "f", "f", "u", "s", "e", "}",
        "}">>,
      \* spaces around the name, lower case
      <<"{", "{", " ", "c", "a", "t", "d", "i", "f", "f", "u", "s", "e",
        " ", "}", "}">>,
      \* a positional parameter and an integer threshold
      <<"{", "{", "C", "a", "t", "D", "i", "f", "f", "u", "s", "e", "|",
        "x", "|", "t", "h", "r", "e", "s", "h", "o", "l", "d", "=", "1",
        "5", "0", "}", "}">>,
      \* namespace prefix, a threshold that is no integer
      <<"{", "{", "T", "e", "m", "p", "l", "a", "t", "e", ":", "C", "a",
        "t", "D", "i", "f", "f", "u", "s", "e", "|", "t", "h", "r", "e",
        "s", "h", "o", "l", "d", "=", "x", "}", "}">>,
      \* a second source name
      <<"{", "{", "C", "a", "t", "D", "i", "f", "f", "u", "s", "e", "2",
        "}", "}">>,
      \* the target invocation
      <<"{", "{", "D", "i", "f", "f", "u", "s", "i", "o", "n", " ", "b",
        "y", " ", "c", "o", "n", "d", "i", "t", "i", "o", "n", "|", "t",
        "h", "r", "e", "s", "h", "o", "l", "d", "=", "2", "0", "0", "}",
        "}">>,
      \* a source inside another template
      <<"{", "{", "O", "t", "h", "e", "r", "|", "{", "{", "C", "a", "t",
        "D", "i", "f", "f", "u", "s", "e", "}", "}", "}", "}">>,
      \* a source inside a source
      <<"{", "{", "C", "a", "t", "D", "i", "f", "f", "u", "s", "e", "|",
        "{", "{", "C", "a", "t", "D", "i", "f", "f", "u", "s", "e", "|",
        "t", "h", "r", "e", "s", "h", "o", "l", "d", "=", "7", "}", "}",
        "}", "}">>,
      \* plain text
      <<"t", "e", "x", "t", "\n">>
    }

FindTexts(n) == {Concat(ps) : ps \in SeqsUpTo(FindPieces, n)}

CATDIFFUSE == <<"C", "a", "t", "D", "i", "f", "f", "u", "s", "e">>
CATDIFFUSE2 == <<"C", "a", "t", "D", "i", "f", "f", "u", "s", "e", "2">>

\* --templates: the default and the list of the usage example
FindSourceLists == {<<CATDIFFUSE>>, <<CATDIFFUSE, CATDIFFUSE2>>}

\* the call returns its three values, or raises
FindReturn(out) ==
    IF out.raised
    THEN /\ pc' = "raised"
         /\ UNCHANGED <<new_text, changed, detected_threshold>>
    ELSE /\ pc' = "found"
         /\ new_text' = out.text
         /\ changed' = out.changed
         /\ detected_threshold' = out.detected_threshold

\* find_and_replace_templates(text, source_templates, TARGET_TEMPLATE,
\* threshold, preserve_params) called on its own
FindCall ==
    /\ pc = "find"
    /\ FindReturn(find_and_replace_templates(text, source_templates,
                      TARGET_TEMPLATE, threshold, preserve_params))
    /\ UNCHANGED <<text, source_templates, default_limit, target_exists,
                   source_found, edited, action, normalize_vars,
                   extract_vars, args_vars, site_vars, count, file_count,
                   result, loop_vars, events>>

InitFind ==
    /\ pc = "find"
    /\ script = "replace_catdiffuse"
    /\ parent_title = <<>>
    /\ dry_run = TRUE
    /\ preserve_params \in BOOLEAN
    /\ threshold = DEFAULT_LIMIT
    /\ args_limit = 0
    /\ SiteIdle /\ CallIdle /\ LoopIdle /\ events = <<>>
    /\ text \in FindTexts(MaxFindPieces)
    /\ source_templates \in FindSourceLists
    /\ default_limit = DEFAULT_LIMIT
    /\ target_exists = FALSE /\ source_found = <<>> /\ edited = <<>>
    /\ new_text = <<>> /\ changed = FALSE /\ action = <<>>
    /\ NormalizeIdle /\ ExtractIdle

NextFind == FindCall

SpecFind == InitFind /\ [][NextFind]_vars

----------------------------------------------------------------------------
(* One call of the function that edits a page                              *)

\* remove_category_from_parent(category, parent_category, dry_run, threshold)
\* called on its own, as the tests call it
InitRemove ==
    /\ pc = "remove"
    /\ script = "category_diffusion_bot"
    /\ parent_title = PARENT_TITLE
    /\ dry_run \in BOOLEAN
    /\ preserve_params = TRUE
    /\ threshold = DEFAULT_LIMIT
    /\ args_limit = 0
    /\ n_pages = 1
    /\ page_text \in TagTexts(PARENT_TITLE, MaxTagPieces)
    /\ fault \in Faults \ CountFaults
    /\ n_files = 0
    /\ CallIdle /\ LoopIdle /\ events = <<>>
    /\ EngineIdle /\ NormalizeIdle /\ ExtractIdle

\* process_category(page, source_templates, config.TARGET_TEMPLATE,
\* default_limit, dry_run, verbose) called on its own
InitProcess ==
    /\ pc = "process"
    /\ script = "replace_templates"
    /\ parent_title = <<>>
    /\ dry_run \in BOOLEAN
    /\ preserve_params = TRUE
    /\ threshold = 0
    /\ args_limit = 0
    /\ n_pages = 1
    /\ page_text \in PageTexts
    /\ fault \in Faults \ CountFaults
    /\ n_files = 0
    /\ CallIdle /\ LoopIdle /\ events = <<>>
    /\ text = <<>>
    /\ source_templates \in SourceLists
    /\ default_limit \in DefaultLimits
    /\ target_exists = FALSE /\ source_found = <<>> /\ edited = <<>>
    /\ new_text = <<>> /\ changed = FALSE /\ action = <<>>
    /\ NormalizeIdle /\ ExtractIdle

InitEdit == InitRemove \/ InitProcess

NextEdit ==
    \/ RemoveGetRaises \/ RemoveGet \/ RemoveAbsent \/ RemoveSub
    \/ RemoveUnchanged \/ RemoveDryRun \/ RemoveSave \/ RemoveSaveRaises
    \/ ProcessGetRaises \/ ProcessGet
    \/ Scan \/ NoMatchCall \/ RemoveRedundantCall \/ ReplaceFirstRemoveRestCall
    \/ ProcessUnchanged \/ ProcessDryRun \/ ProcessSave \/ ProcessSaveRaises

SpecEdit == InitEdit /\ [][NextEdit]_vars

----------------------------------------------------------------------------
(* The batch loops: main of category_diffusion_bot.py, of                  *)
(* replace_catdiffuse.py and of replace_templates.py.  The site answers    *)
(* each page of a listing with a text, a number of file members and at     *)
(* most one failure.                                                       *)

\* src/config.py line 28
DRY_RUN_DEFAULT == TRUE

\* the same option with the default False of a plain store_true option
ArgsDryRun_plain(flag) == flag

\* replace_templates.py lines 274-279: --dry-run is a store_true option
\* whose default is config.DRY_RUN_DEFAULT
ArgsDryRun(flag) == flag \/ DRY_RUN_DEFAULT

\* the same test passed only beyond the limit
LimitReached_beyond == args_limit > 0 /\ processed > args_limit

\* "if args.limit and processed >= args.limit"
LimitReached == args_limit > 0 /\ processed >= args_limit

\* "if file_count < threshold"
Eligible_below(n, t) == n < t

\* "if file_count <= threshold"
Eligible(n, t) == n <= t

\* the pages of the three listings
BotPageTexts ==
    { <<"t", "e", "x", "t", "\n">>,
      ParentTag(DIFFUSION_CATEGORY),
      ParentTagWithPipe(DIFFUSION_CATEGORY) \o <<"K", "e", "y", "]", "]">>,
      ParentTagWithPipe(DIFFUSION_CATEGORY) }

CatPageTexts ==
    { <<"t", "e", "x", "t", "\n">>,
      OPEN \o CATDIFFUSE \o CLOSE,
      OPEN \o CATDIFFUSE2 \o CLOSE }

TplPageTexts ==
    { <<"t", "e", "x", "t", "\n">>,
      OPEN \o SOURCE_TEMPLATES[1] \o CLOSE,
      OPEN \o TARGET_TEMPLATE \o CLOSE \o OPEN \o SOURCE_TEMPLATES[1] \o CLOSE }

Limits == 0..MaxLimit
PageNumbers == 0..MaxPages

\* the thresholds of the runs and the numbers of file members of a page:
\* fewer than, as many as and more than the threshold
BatchThresholds == {0, 1}
BatchFileNumbers == 0..2

\* the failures of a page: one failure of each kind (the three failures of
\* page.save are caught by clauses that do the same)
BatchFaults == {"none", "NoPageError", "LockedPageError", "CountError"}

\* the loop takes the next page of the listing; the locals of the calls
\* made for the previous page are gone
NewPage(texts, faults) ==
    /\ page' = page + 1
    /\ page_text' \in texts
    /\ fault' \in faults
    /\ n_files' \in BatchFileNumbers
    /\ count' = 0 /\ file_count' = None /\ result' = FALSE
    /\ detected_threshold' = None
    /\ text' = <<>> /\ new_text' = <<>> /\ changed' = FALSE
    /\ target_exists' = FALSE /\ source_found' = <<>> /\ edited' = <<>>
    /\ action' = <<>>
    /\ events' = events \o <<"page">>
    /\ UNCHANGED <<source_templates, default_limit, n_pages, args_vars,
                   normalize_vars, extract_vars>>

\* the loop is left or continued: nothing but pc and the counters changes
Counters(p, r, s, u) ==
    /\ processed' = processed + p
    /\ removed' = removed + r
    /\ skipped' = skipped + s
    /\ updated' = updated + u
    /\ UNCHANGED <<page, src, total_candidates>>

LoopStep(to, happened) ==
    /\ pc' = to
    /\ events' = events \o happened
    /\ UNCHANGED <<engine_vars, normalize_vars, extract_vars, args_vars,
                   site_vars, call_vars>>

(* category_diffusion_bot.py: main *)

\* lines 229-234: "if not subcategories: return"
BotEmpty ==
    /\ pc = "main" /\ script = "category_diffusion_bot"
    /\ n_pages = 0
    /\ LoopStep("exit", <<>>) /\ Counters(0, 0, 0, 0)

\* lines 237-241: the counters are set and the loop is entered
BotStart ==
    /\ pc = "main" /\ script = "category_diffusion_bot"
    /\ n_pages > 0
    /\ LoopStep("loop", <<>>) /\ Counters(0, 0, 0, 0)

\* lines 241-249: the next subcategory; count_files_in_category is called
BotNextPage ==
    /\ pc = "loop" /\ script = "category_diffusion_bot"
    /\ page < n_pages /\ ~LimitReached
    /\ pc' = "count"
    /\ NewPage(BotPageTexts, BatchFaults)
    /\ UNCHANGED <<src, processed, removed, skipped, updated,
                   total_candidates>>

\* lines 242-244: break
BotLimit ==
    /\ pc = "loop" /\ script = "category_diffusion_bot"
    /\ page < n_pages /\ LimitReached
    /\ LoopStep("summary", <<>>) /\ Counters(0, 0, 0, 0)

\* the list is exhausted
BotExhausted ==
    /\ pc = "loop" /\ script = "category_diffusion_bot"
    /\ page = n_pages
    /\ LoopStep("summary", <<>>) /\ Counters(0, 0, 0, 0)

\* lines 260-264: more than threshold files, skipped += 1; processed += 1
BotKeep ==
    /\ pc = "counted" /\ script = "category_diffusion_bot"
    /\ ~Eligible(file_count, threshold)
    /\ LoopStep("loop", <<>>) /\ Counters(1, 0, 1, 0)

\* lines 251-254: remove_category_from_parent is called
BotRemoveCall ==
    /\ pc = "counted" /\ script = "category_diffusion_bot"
    /\ Eligible(file_count, threshold)
    /\ LoopStep("remove", <<>>) /\ Counters(0, 0, 0, 0)

\* the same step without the "processed += 1" of line 264
BotRemoved_unprocessed ==
    /\ pc = "returned" /\ script = "category_diffusion_bot"
    /\ result
    /\ LoopStep("loop", IF dry_run THEN <<>> ELSE <<"sleep">>)
    /\ Counters(0, 1, 0, 0)

\* lines 254-257, 264: removed += 1, the delay of a live run;
\* processed += 1
BotRemoved ==
    /\ pc = "returned" /\ script = "category_diffusion_bot"
    /\ result
    /\ LoopStep("loop", IF dry_run THEN <<>> ELSE <<"sleep">>)
    /\ Counters(1, 1, 0, 0)

\* lines 258-259, 264: skipped += 1; processed += 1
BotSkipped ==
    /\ pc = "returned" /\ script = "category_diffusion_bot"
    /\ ~result
    /\ LoopStep("loop", <<>>) /\ Counters(1, 0, 1, 0)

(* replace_catdiffuse.py: main *)

\* all(s.lower() not in text.lower() for s in source_templates) is false
Mentioned(t, names) ==
    \E k \in 1..Len(names) : Contains(LowerAll(t), LowerAll(names[k]))

\* lines 137-141
CatStart ==
    /\ pc = "main" /\ script = "replace_catdiffuse"
    /\ LoopStep("sources", <<>>) /\ Counters(0, 0, 0, 0)

\* lines 144-152: the next source template and the listing of the
\* categories that embed it (a run lists MaxPages categories at most)
CatNextSrc ==
    /\ pc = "sources" /\ script = "replace_catdiffuse"
    /\ src < Len(source_templates)
    /\ pc' = "loop"
    /\ src' = src + 1
    /\ page' = 0
    /\ n_pages' \in 0..(MaxPages - total_candidates)
    /\ UNCHANGED <<engine_vars, normalize_vars, extract_vars, args_vars,
                   page_text, fault, n_files, call_vars, processed, removed,
                   skipped, updated, total_candidates, events>>

\* the source templates are exhausted
CatSourcesDone ==
    /\ pc = "sources" /\ script = "replace_catdiffuse"
    /\ src = Len(source_templates)
    /\ LoopStep("summary", <<>>) /\ Counters(0, 0, 0, 0)

\* lines 154-159: the next category of the listing
CatNextPage ==
    /\ pc = "loop" /\ script = "replace_catdiffuse"
    /\ page < n_pages /\ ~LimitReached
    /\ pc' = "fetch"
    /\ NewPage(CatPageTexts, BatchFaults)
    /\ total_candidates' = total_candidates + 1
    /\ UNCHANGED <<src, processed, removed, skipped, updated>>

\* lines 155-158 and 204-205: both loops are left
CatLimit ==
    /\ pc = "loop" /\ script = "replace_catdiffuse"
    /\ page < n_pages /\ LimitReached
    /\ pc' = "summary"
    /\ page' = page + 1
    /\ total_candidates' = total_candidates + 1
    /\ UNCHANGED <<engine_vars, normalize_vars, extract_vars, args_vars,
                   site_vars, call_vars, src, processed, removed, skipped,
                   updated, events>>

\* the listing is exhausted; lines 204-205
CatListingDone ==
    /\ pc = "loop" /\ script = "replace_catdiffuse"
    /\ page = n_pages
    /\ LoopStep(IF LimitReached THEN "summary" ELSE "sources", <<>>)
    /\ Counters(0, 0, 0, 0)

\* the same failure with no except clause around cat_page.get()
CatGetRaises_uncaught ==
    /\ pc = "fetch"
    /\ fault \in GetFaults
    /\ LoopStep("raised", <<>>) /\ Counters(0, 0, 0, 0)

\* lines 161-165: cat_page.get() raises; continue
CatGetRaises ==
    /\ pc = "fetch"
    /\ fault \in GetFaults
    /\ LoopStep("loop", <<"caught">>) /\ Counters(0, 0, 0, 0)

\* line 162: text = cat_page.get()
CatGet ==
    /\ pc = "fetch"
    /\ fault \notin GetFaults
    /\ pc' = "fetched"
    /\ text' = page_text
    /\ UNCHANGED <<source_templates, default_limit, target_exists,
                   source_found, edited, new_text, changed, action,
                   normalize_vars, extract_vars, batch_vars>>

\* lines 168-169: no source name in the text; continue
CatUnmentioned ==
    /\ pc = "fetched"
    /\ ~Mentioned(text, source_templates)
    /\ LoopStep("loop", <<>>) /\ Counters(0, 0, 0, 0)

\* the same step for a page that is not counted
CatCountCall_skipped ==
    /\ pc = "fetched"
    /\ Mentioned(text, source_templates)
    /\ LoopStep("counted", <<>>) /\ Counters(0, 0, 0, 0)

\* line 172: count_files_in_category is called
CatCountCall ==
    /\ pc = "fetched"
    /\ Mentioned(text, source_templates)
    /\ LoopStep("count", <<>>) /\ Counters(0, 0, 0, 0)

\* lines 201-202: more than threshold files
CatKeep ==
    /\ pc = "counted" /\ script = "replace_catdiffuse"
    /\ ~Eligible(file_count, threshold)
    /\ LoopStep("loop", <<>>) /\ Counters(0, 0, 0, 0)

\* lines 175-176: find_and_replace_templates(text, [src], target_template,
\* args.threshold)
CatFind ==
    /\ pc = "counted" /\ script = "replace_catdiffuse"
    /\ Eligible(file_count, threshold)
    /\ FindReturn(find_and_replace_templates(text, <<source_templates[src]>>,
                      TARGET_TEMPLATE, threshold, TRUE))
    /\ UNCHANGED <<text, source_templates, default_limit, target_exists,
                   source_found, edited, action, normalize_vars,
                   extract_vars, args_vars, site_vars, count, file_count,
                   result, loop_vars, events>>

\* lines 198-199: no instance of src in the page
CatUnchanged ==
    /\ pc = "found" /\ script = "replace_catdiffuse"
    /\ ~changed
    /\ LoopStep("loop", <<>>) /\ Counters(0, 0, 0, 0)

\* lines 181-182 and 197
CatDryRun ==
    /\ pc = "found" /\ script = "replace_catdiffuse"
    /\ changed /\ dry_run
    /\ LoopStep("loop", <<>>) /\ Counters(1, 0, 0, 0)

\* lines 183-190, 195, 197: the page is saved, the delay, processed += 1
CatSave ==
    /\ pc = "found" /\ script = "replace_catdiffuse"
    /\ changed /\ ~dry_run
    /\ fault \notin SaveFaults
    /\ pc' = "loop"
    /\ page_text' = new_text
    /\ events' = events \o <<"save", "sleep">>
    /\ Counters(1, 0, 0, 0)
    /\ UNCHANGED <<engine_vars, normalize_vars, extract_vars, args_vars,
                   n_pages, fault, n_files, call_vars>>

\* lines 188-197: page.save raises, the except clauses log it; the delay,
\* processed += 1
CatSaveRaises ==
    /\ pc = "found" /\ script = "replace_catdiffuse"
    /\ changed /\ ~dry_run
    /\ fault \in SaveFaults
    /\ LoopStep("loop", <<"save", "caught", "sleep">>)
    /\ Counters(1, 0, 0, 0)

(* replace_templates.py: main *)

\* lines 369-372
TplStart ==
    /\ pc = "main" /\ script = "replace_templates"
    /\ LoopStep("loop", <<>>) /\ Counters(0, 0, 0, 0)

\* lines 372-384: processed += 1 and process_category is called
TplNextPage ==
    /\ pc = "loop" /\ script = "replace_templates"
    /\ page < n_pages /\ ~LimitReached
    /\ pc' = "process"
    /\ NewPage(TplPageTexts, BatchFaults \ CountFaults)
    /\ processed' = processed + 1
    /\ UNCHANGED <<src, removed, skipped, updated, total_candidates>>

\* lines 373-374: break
TplLimit ==
    /\ pc = "loop" /\ script = "replace_templates"
    /\ page < n_pages /\ LimitReached
    /\ LoopStep("summary", <<>>) /\ Counters(0, 0, 0, 0)

\* the pages are exhausted
TplExhausted ==
    /\ pc = "loop" /\ script = "replace_templates"
    /\ page = n_pages
    /\ LoopStep("summary", <<>>) /\ Counters(0, 0, 0, 0)

\* lines 386-391: updated += 1 after a success, and the delay of a live run
TplAfter ==
    /\ pc = "returned" /\ script = "replace_templates"
    /\ LoopStep("loop",
                IF ~dry_run /\ (args_limit = 0 \/ processed < args_limit)
                THEN <<"sleep">> ELSE <<>>)
    /\ Counters(0, 0, 0, IF result THEN 1 ELSE 0)

(* the runs *)

InitBot ==
    /\ script = "category_diffusion_bot"
    /\ parent_title = DIFFUSION_CATEGORY
    /\ dry_run \in BOOLEAN
    /\ threshold \in BatchThresholds
    /\ n_pages \in PageNumbers
    /\ EngineIdle

InitCat ==
    /\ script = "replace_catdiffuse"
    /\ parent_title = <<>>
    /\ dry_run \in BOOLEAN
    /\ threshold \in BatchThresholds
    /\ n_pages = 0
    /\ text = <<>>
    /\ source_templates \in FindSourceLists
    /\ default_limit = DEFAULT_LIMIT
    /\ target_exists = FALSE /\ source_found = <<>> /\ edited = <<>>
    /\ new_text = <<>> /\ changed = FALSE /\ action = <<>>

InitTpl ==
    /\ script = "replace_templates"
    /\ parent_title = <<>>
    /\ \E flag \in BOOLEAN : dry_run = ArgsDryRun(flag)
    /\ threshold = 0
    /\ n_pages \in PageNumbers
    /\ text = <<>>
    /\ source_templates = SOURCE_TEMPLATES
    /\ default_limit = DEFAULT_LIMIT
    /\ target_exists = FALSE /\ source_found = <<>> /\ edited = <<>>
    /\ new_text = <<>> /\ changed = FALSE /\ action = <<>>

InitBatch ==
    /\ pc = "main"
    /\ InitBot \/ InitCat \/ InitTpl
    /\ preserve_params = TRUE
    /\ args_limit \in Limits
    /\ page_text = <<>> /\ fault = "none" /\ n_files = 0
    /\ CallIdle /\ LoopIdle /\ events = <<>>
    /\ NormalizeIdle /\ ExtractIdle

NextBatch ==
    \/ BotEmpty \/ BotStart \/ BotNextPage \/ BotLimit \/ BotExhausted
    \/ CountMember \/ CountExhausted \/ CountRaisesCaught \/ CountRaises
    \/ BotKeep \/ BotRemoveCall
    \/ RemoveGetRaises \/ RemoveGet \/ RemoveAbsent \/ RemoveSub
    \/ RemoveUnchanged \/ RemoveDryRun \/ RemoveSave \/ RemoveSaveRaises
    \/ BotRemoved \/ BotSkipped
    \/ CatStart \/ CatNextSrc \/ CatSourcesDone \/ CatNextPage \/ CatLimit
    \/ CatListingDone \/ CatGetRaises \/ CatGet \/ CatUnmentioned
    \/ CatCountCall \/ CatKeep \/ CatFind
    \/ CatUnchanged \/ CatDryRun \/ CatSave \/ CatSaveRaises
    \/ TplStart \/ TplNextPage \/ TplLimit \/ TplExhausted
    \/ ProcessGetRaises \/ ProcessGet
    \/ Scan \/ NoMatchCall \/ RemoveRedundantCall \/ ReplaceFirstRemoveRestCall
    \/ ProcessUnchanged \/ ProcessChanged
    \/ TplAfter

SpecBatch == InitBatch /\ [][NextBatch]_vars

\* the positions a run ends in (the summary is logged, main returns before
\* its loop, an exception leaves main) and the positions of a run
Final == {"summary", "exit", "raised"}

Positions ==
    {"main", "loop", "sources", "fetch", "fetched", "count", "counted",
     "remove", "got", "subbed", "found", "process", "ready", "scanned",
     "done", "returned"} \cup Final

\* the run goes on from a position that is not final
Proceed == pc \notin Final /\ pc' \in Positions

\* a run is one sequential process and every call it makes returns: it
\* does not stay for ever at a position that is not final
FairSpecBatch == SpecBatch /\ WF_pc(Proceed)

----------------------------------------------------------------------------
(* Properties                                                              *)

\* C1: a text with exactly one source occurrence and no target occurrence
\* comes back changed, with exactly one target invocation and no source
\* occurrence, whatever the list of source names is.
C1_OneSourceBecomesOneTarget ==
    (TookReplaceFirst /\ Cardinality(Spans(source_found)) = 1)
        => /\ changed
           /\ TargetCount(new_text) = 1
           /\ FindAll(new_text, source_templates) = <<>>

\* C2: in the replaceFirstRemoveRest branch the text before the cleanup is
\* the original text with the span of the first occurrence replaced by the
\* target invocation and the span of every other occurrence deleted, every
\* character outside those spans kept in order.
C2_FirstReplacedRestDeleted ==
    TookReplaceFirst
        => edited = SliceTo(text, source_found[1].start)
                      \o Replacement(TARGET_TEMPLATE, AppliedLimit(FirstOverride, default_limit))
                      \o KeepOutside(text, source_found, source_found[1].start)

\* C3: in the removeRedundant branch changed is true, no source occurrence
\* is left, and the output has exactly as many target invocations as the
\* input.
C3_RedundantSourcesRemoved ==
    TookRemoveRedundant
        => /\ changed
           /\ FindAll(new_text, source_templates) = <<>>
           /\ TargetCount(new_text) = TargetCount(text)

\* C4: in the removeRedundant branch every target invocation of the input,
\* parameters included, stands in the output character for character.
C4_TargetsUntouched ==
    TookRemoveRedundant
        => \A k \in 1..Len(TargetInvocations(text)) :
               Contains(new_text, TargetInvocations(text)[k])

\* C5: a text without a source occurrence, with or without a target and
\* the empty text included, is returned unmodified with changed = false; no
\* whitespace cleanup is applied to it.
C5_NoSourceNoChange ==
    (Done /\ source_found = <<>>)
        => new_text = text /\ changed = FALSE

\* C5 witness: a call returned for a text that has a target and a run of
\* spaces the cleanup would collapse, but no source occurrence
C5_Witness ==
    /\ Done
    /\ source_found = <<>>
    /\ target_exists
    /\ CollapseSpaces(text) # text

\* C6: in the replaceFirstRemoveRest branch the limit written into the
\* target invocation is the override of the first occurrence whenever it
\* carries one, 0 included, and default_limit only when it carries none
\* (stated where the occurrences do not overlap, so that the written
\* invocation stands at the offset of the first occurrence).
C6_FirstOverrideApplied ==
    (TookReplaceFirst /\ DisjointSpans(source_found))
        => LET written == Replacement(TARGET_TEMPLATE,
                              IF FirstOverride # None THEN FirstOverride
                              ELSE default_limit)
               at == source_found[1].start
           IN  Slice(edited, at, at + Len(written)) = written

\* C7: the extracted override is the first positional numeric argument if
\* there is one, otherwise the value of a keyword argument limit wherever
\* it stands in the argument list, otherwise None.
C7_OverrideFromAnyArgument ==
    Done => extracted = Override(ArgsOf(tmpl))

\* C8: normalize_template_name is idempotent.
C8_NormalizeIdempotent ==
    Done => renormalized = normalized

\* C9: an invocation whose written name equals a recognized source name
\* after normalization (letter case, underscores, namespace prefix) is
\* recorded as an occurrence of a source template, and one whose written
\* name equals the target name after normalization makes target_exists true.
C9_DetectionNormalizes ==
    Done => \A i \in 0..Len(text) :
                LET w == WrittenName(text, i)
                IN  w # <<>> =>
                      /\ (\E k \in 1..Len(source_templates) :
                              normalize_template_name(w[1])
                                = normalize_template_name(source_templates[k]))
                            => \E m \in 1..Len(source_found) : source_found[m].start = i
                      /\ normalize_template_name(w[1])
                           = normalize_template_name(TARGET_TEMPLATE)
                            => target_exists

\* C10: after an edit in either branch the output has no run of two or
\* more blank lines and no run of two or more spaces.
C10_CleanedAfterEdit ==
    (Done /\ changed)
        => /\ ~Contains(new_text, <<"\n", "\n", "\n">>)
           /\ ~Contains(new_text, <<" ", " ">>)


\* C11: the two examples of the module docstring give exactly the documented
\* whole-text outputs: with the sources [CatDiffuse, Cat diffuse] and the
\* default 200, "{{CatDiffuse}} text {{Cat diffuse}}" becomes
\* "{{Diffusion by condition|200}} text" and
\* "{{Diffusion by condition|200}} {{CatDiffuse}}" becomes
\* "{{Diffusion by condition|200}}", no separator space being left where an
\* occurrence was deleted.
C11_DocumentedExamples ==
    (Done /\ source_templates = <<SOURCE_TEMPLATES[1], SOURCE_TEMPLATES[2]>>
          /\ default_limit = DEFAULT_LIMIT)
        => /\ text = MULTIPLE_EXAMPLE => new_text = MULTIPLE_EXAMPLE_OUTPUT
           /\ text = REDUNDANT_EXAMPLE => new_text = REDUNDANT_EXAMPLE_OUTPUT

\* C19: the call never introduces more than one target invocation: the
\* output has at most one target invocation more than the input, and no
\* more than the input when the input already contains the target.
C19_AtMostOneTargetIntroduced ==
    Done => /\ TargetCount(new_text) <= TargetCount(text) + 1
            /\ target_exists => TargetCount(new_text) <= TargetCount(text)

\* the call returned after page.get() gave the text
GotAndReturned == pc = "returned" /\ fault \notin GetFaults

\* C12: whenever the text read from the page contains the plain tag
\* [[title]] or the sort-keyed prefix [[title|, and the site raises nothing,
\* the call returns True and its new text contains neither form any more,
\* also when the closing brackets of a sort-keyed link are missing or its
\* sort key contains "]".
C12_EveryTagDeleted ==
    (GotAndReturned /\ fault = "none" /\ script = "category_diffusion_bot"
       /\ TagPresent(text, parent_title))
        => /\ result = TRUE
           /\ ~TagPresent(new_text, parent_title)

\* C13: when the text read from the page contains neither [[title]] nor
\* [[title|, the call returns False, the stored page text is still the text
\* read and page.save was not called, in live mode and in dry-run.
C13_AbsentTagNoEdit ==
    (GotAndReturned /\ script = "category_diffusion_bot"
       /\ ~TagPresent(text, parent_title))
        => /\ result = FALSE
           /\ page_text = text
           /\ events = <<>>

\* a live call on a page with other content and without the tag
C13_Witness ==
    /\ GotAndReturned /\ script = "category_diffusion_bot" /\ ~dry_run
    /\ ~TagPresent(text, parent_title)
    /\ Contains(text, <<"[", "[", "C", "a", "t", "e", "g", "o", "r", "y", ":",
                        "O", "t", "h", "e", "r", "]", "]">>)
    /\ result = FALSE

\* page.save was called in the run
SaveCalled == \E k \in 1..Len(events) : events[k] = "save"

\* C17: with dry_run True neither remove_category_from_parent nor
\* process_category calls page.save, whatever the page text is, and
\* remove_category_from_parent returns True whenever deleting the tag would
\* have changed the text.
C17_DryRunNoSave ==
    dry_run
        => /\ ~SaveCalled
           /\ (GotAndReturned /\ script = "category_diffusion_bot"
                 /\ TagPresent(text, parent_title)
                 /\ RemoveTag(text, parent_title) # text)
                => result = TRUE

\* a dry run in which the tag would have been removed, and one in which
\* process_category found a change
C17_Witness ==
    /\ dry_run /\ pc = "returned" /\ result = TRUE /\ page_text = text
    /\ \/ script = "category_diffusion_bot" /\ new_text # text
          /\ TagPresent(text, parent_title)
       \/ script = "replace_templates" /\ changed

InvocationOf(t, i, nm) ==
    /\ StartsAt(t, i, OPEN)
    /\ \E j \in {SkipSpace(t, i + 2),
                 IF LitAt(t, SkipSpace(t, i + 2), TEMPLATE_PREFIX)
                 THEN SkipSpace(t, SkipSpace(t, i + 2) + Len(TEMPLATE_PREFIX))
                 ELSE SkipSpace(t, i + 2)} :
           /\ LitAt(t, j, nm)
           /\ \/ At(t, SkipSpace(t, j + Len(nm))) = "|"
              \/ StartsAt(t, SkipSpace(t, j + Len(nm)), CLOSE)

\* number of invocations of the templates of a list of names in a text
Occurrences(t, names) ==
    Cardinality({i \in 0..Len(t) :
                    \E k \in 1..Len(names) : InvocationOf(t, i, names[k])})

\* the call has replaced one for one
OneForOne ==
    /\ Occurrences(new_text, source_templates) = 0
    /\ Occurrences(new_text, <<TARGET_TEMPLATE>>)
         = Occurrences(text, <<TARGET_TEMPLATE>>)
             + Occurrences(text, source_templates)
    /\ changed <=> Occurrences(text, source_templates) > 0

\* C20: find_and_replace_templates replaces one for one: the call returns
\* a text with no invocation of a source template and with as many target
\* invocations as the input had source and target invocations together,
\* and changed is true exactly when the input had a source invocation.
C20_OneForOne ==
    (script = "replace_catdiffuse" /\ pc \in {"found", "raised"})
        => pc = "found" /\ OneForOne

\* the same for the calls that copy the parameters (the default, and the
\* only way main calls the function)
OneForOnePreserving ==
    (script = "replace_catdiffuse" /\ pc \in {"found", "raised"}
        /\ preserve_params)
        => pc = "found" /\ OneForOne

\* number of calls of page.save so far
Saves(ev) == Cardinality({k \in 1..Len(ev) : ev[k] = "save"})

C16_CountBeforeEdit ==
    [][ Saves(events') > Saves(events)
            => /\ script \in CountingScripts
               /\ file_count # None
               /\ file_count <= threshold ]_vars

\* a counted page was saved by replace_catdiffuse.main and the loop went on
C16_Witness ==
    /\ script = "replace_catdiffuse" /\ pc = "loop"
    /\ SaveCalled
    /\ file_count # None /\ file_count <= threshold
    /\ page_text = new_text

\* the loop was left because the listings were exhausted or the limit was
\* reached
LoopFinished ==
    \/ LimitReached
    \/ /\ page = n_pages
       /\ script = "replace_catdiffuse" => src = Len(source_templates)

\* the run ended with the exception of a member enumeration that
\* replace_catdiffuse.main does not catch
CountAborted == pc = "raised" /\ fault \in CountFaults

\* C18: a page whose read or save fails (missing page, locked page) does
\* not end the run: the loops are left only when the listing is exhausted
\* or the limit is reached, and every run with such a page reaches its
\* summary, unless the member enumeration of a page raises in
\* replace_catdiffuse.main.
C18_FailureIsolated ==
    /\ [](pc = "summary" => LoopFinished)
    /\ (fault \in GetFaults \cup SaveFaults)
            ~> (pc = "summary" \/ CountAborted)

\* the summary of a run in which a failure was caught and a later page
\* was taken all the same
C18_Witness ==
    /\ pc = "summary"
    /\ \E i, j \in 1..Len(events) :
           i < j /\ events[i] = "caught" /\ events[j] = "page"

\* the invocations of the templates of a list of names among the templates
\* of a text, nested ones included, in the order of their start offsets
InvocationsOf(t, names) ==
    SelectSeq(FilterTemplates(t, 0), LAMBDA tp : Recognized(t, tp, names))

\* the parameters of a template that are named threshold
ThresholdParams(t, tp) == {k \in 1..Len(tp.pipes) : IsThresholdParam(t, tp, k)}

\* the threshold the written invocation has to carry for a source invocation
ExpectedThreshold(t, tp, value) ==
    IF ExistingThreshold(t, tp) # None THEN ExistingThreshold(t, tp) ELSE value

\* the invocation out of the text u carries exactly one threshold parameter
\* and its value is the integer n
CarriesThreshold(u, out, n) ==
    /\ Cardinality(ThresholdParams(u, out)) = 1
    /\ \A k \in ThresholdParams(u, out) :
           IsNumber(ParamValue(u, out, k)) /\ PyInt(ParamValue(u, out, k)) = n

\* the integer thresholds of the source invocations of a text
ExistingThresholds(t, names) ==
    {ExistingThreshold(t, InvocationsOf(t, names)[k]) :
        k \in 1..Len(InvocationsOf(t, names))} \ {None}

\* the k-th source or target invocation of the input and the k-th target
\* invocation of the returned text are the same node of the tree
ThresholdsCarried(ins, outs) ==
    /\ Len(outs) = Len(ins)
    /\ \A k \in 1..Len(ins) :
           Recognized(text, ins[k], source_templates)
               => CarriesThreshold(new_text, outs[k],
                      ExpectedThreshold(text, ins[k], threshold))

\* C21: every target invocation find_and_replace_templates writes carries
\* exactly one threshold parameter, whose value is the integer threshold of
\* the source invocation it replaces when that has one and threshold_value
\* otherwise; detected_threshold is an integer threshold of a replaced
\* invocation, or None when no replaced invocation has one; with
\* preserve_params True and False.  (src = 0: the call is made on its own,
\* with the whole list of source names.)
C21_ThresholdCarried ==
    (script = "replace_catdiffuse" /\ pc = "found" /\ src = 0)
        => /\ ThresholdsCarried(
                  InvocationsOf(text, source_templates \o <<TARGET_TEMPLATE>>),
                  InvocationsOf(new_text, <<TARGET_TEMPLATE>>))
           /\ IF ExistingThresholds(text, source_templates) = {}
              THEN detected_threshold = None
              ELSE detected_threshold
                       \in ExistingThresholds(text, source_templates)

\* the same for the calls that drop the parameters of the source
ThresholdCarriedWithoutParams ==
    (script = "replace_catdiffuse" /\ pc = "found" /\ src = 0
        /\ ~preserve_params)
        => ThresholdsCarried(
               InvocationsOf(text, source_templates \o <<TARGET_TEMPLATE>>),
               InvocationsOf(new_text, <<TARGET_TEMPLATE>>))

\* the limit the description has to name: the one the replacement is
\* written with
NamedLimit == AppliedLimit(FirstOverride, default_limit)

\* C22: the description replace_templates returns: in the
\* replaceFirstRemoveRest branch it names the source template of the first
\* occurrence and the applied limit, and it states a duplicate count exactly
\* when the text had more than one distinct occurrence, the count being the
\* number of distinct occurrences minus one; in the removeRedundant branch
\* it says that redundant source templates were removed because the target
\* exists.
C22_Description ==
    /\ TookReplaceFirst
         => action = ReplacedAction(source_found[1].source, TARGET_TEMPLATE,
                         NamedLimit, Cardinality(Spans(source_found)))
    /\ TookRemoveRedundant => action = REMOVED_REDUNDANT_ACTION

\* the same for the calls whose source names differ in more than the letter
\* case
DescriptionDistinctNames ==
    source_templates = <<SOURCE_TEMPLATES[1], SOURCE_TEMPLATES[2]>>
        => C22_Description

\* the positions of an event in the record of a run
EventsAt(ev, e) == {k \in 1..Len(ev) : ev[k] = e}

\* between any two consecutive calls of page.save, time.sleep was called
\* exactly once
DelayBetweenSaves(ev) ==
    \A i, j \in EventsAt(ev, "save") :
        (i < j /\ \A k \in EventsAt(ev, "save") : ~(i < k /\ k < j))
            => Cardinality({k \in EventsAt(ev, "sleep") : i < k /\ k < j}) = 1

\* C23: in the live runs of category_diffusion_bot.main and of
\* replace_catdiffuse.main the loop waits the delay once between any two
\* consecutive calls of page.save, whether they succeed or fail: no two
\* calls of page.save follow each other without a sleep in between.
C23_DelayBetweenSaves ==
    (script \in CountingScripts /\ ~dry_run) => DelayBetweenSaves(events)

\* the same for replace_catdiffuse.main alone
DelayBetweenSavesCat ==
    (script = "replace_catdiffuse" /\ ~dry_run) => DelayBetweenSaves(events)

\* the same for the calls of page.save that succeed in
\* category_diffusion_bot.main: every one of them is followed by a sleep
\* before the next page is taken
SleepAfterSavedBot ==
    (script = "category_diffusion_bot" /\ ~dry_run)
        => \A i \in EventsAt(events, "save"), j \in EventsAt(events, "page") :
               (i < j /\ (i = Len(events) \/ events[i + 1] # "caught"))
                   => \E k \in EventsAt(events, "sleep") : i < k /\ k < j

\* remove_category_from_parent has saved the page of the current category
\* without its tag
TagRemoved ==
    /\ script = "category_diffusion_bot" /\ pc = "returned"
    /\ result /\ ~dry_run

\* C24: category_diffusion_bot.main removes the tag only of a category that
\* really has at most threshold files, also in the runs in which the
\* enumeration of the members raises before or during the count.
C24_RemovedOnlyIfFew == TagRemoved => n_files <= threshold

\* the same for the categories whose members are enumerated without error
RemovedOnlyIfFewCounted ==
    (TagRemoved /\ fault \notin CountFaults) => n_files <= threshold

\* number of pages the loop has taken so far
PagesTaken == Cardinality(EventsAt(events, "page"))

\* C25: the accounting of the loop of category_diffusion_bot.main: at the
\* end of every iteration and at the summary processed = removed + skipped,
\* and with a limit > 0 processed never exceeds the limit and no more than
\* limit categories are taken to be counted or edited.
C25_BotAccounting ==
    script = "category_diffusion_bot"
        => /\ pc \in {"loop", "summary"} => processed = removed + skipped
           /\ args_limit > 0
                => processed <= args_limit /\ PagesTaken <= args_limit

\* the summary of a run that the limit has cut short after a removal
C25_Witness ==
    /\ script = "category_diffusion_bot" /\ pc = "summary"
    /\ args_limit > 0 /\ processed = args_limit
    /\ page < n_pages
    /\ removed > 0

\* C26: replace_templates.main can never edit the wiki: --dry-run is a
\* store_true option whose default is config.DRY_RUN_DEFAULT = True, so
\* args.dry_run is True for every command line, process_category is always
\* called with dry_run = True and page.save is never reached.
C26_MainNeverSaves ==
    script = "replace_templates" => dry_run /\ Saves(events) = 0

\* process_category has returned for a page that replace_templates changed,
\* and the site still stores the text it had
C26_Witness ==
    /\ script = "replace_templates" /\ pc = "returned"
    /\ changed /\ new_text # text
    /\ page_text = text

\* no two entries of a list of matches have the same span
OncePerSpan(found) == Cardinality(Spans(found)) = Len(found)

\* C27: replace_templates records each source occurrence once: source_found
\* holds no two entries with the same span, also when two names of the list
\* are equal under case-insensitive comparison, so that no span is edited
\* twice.
C27_OccurrenceRecordedOnce ==
    pc \in {"scanned", "done"} => OncePerSpan(source_found)

\* the same for the lists whose names differ in more than the letter case
RecordedOnceDistinctNames ==
    (pc \in {"scanned", "done"}
        /\ source_templates = <<SOURCE_TEMPLATES[1], SOURCE_TEMPLATES[2]>>)
        => OncePerSpan(source_found)

\* the loop of replace_templates.main ends the iteration of a page
TplPageDone ==
    script = "replace_templates" /\ pc = "returned" /\ pc' = "loop"

\* C28: the summary of replace_templates.main is accurate: the counter
\* reported as "Pages updated" is the number of processed pages for which
\* replace_templates returned changed = true; a page that needed no change
\* is not counted.  The counter starts at 0, so this is: every iteration
\* adds one to it exactly when replace_templates changed the page.
C28_UpdatedCountsChanged ==
    [][ TplPageDone => updated' = updated + (IF changed THEN 1 ELSE 0) ]_vars

\* the counter is the number of the pages for which process_category
\* returned True
UpdatedCountsSuccess ==
    [][ TplPageDone => updated' = updated + (IF result THEN 1 ELSE 0) ]_vars

\* replace_templates applied to the text the call returned, in the same
\* context
Again == replace_templates(new_text, source_templates, TARGET_TEMPLATE,
                           default_limit)

\* C29: replace_templates reaches a fixpoint in one step: applied to its
\* own output it returns changed = false and the same text; an edit never
\* leaves or creates a source occurrence.
C29_FixpointInOneStep == Done => ~Again.changed /\ Again.text = new_text

\* the same for the calls whose source names differ in more than the letter
\* case
FixpointDistinctNames ==
    (Done /\ source_templates = <<SOURCE_TEMPLATES[1], SOURCE_TEMPLATES[2]>>)
        => ~Again.changed /\ Again.text = new_text

\* replace_catdiffuse.main runs with --limit L > 0
CatLimited == script = "replace_catdiffuse" /\ args_limit > 0

\* C30: the limit of replace_catdiffuse.main: with --limit L > 0, over all
\* source templates of the run, processed counts only pages whose text
\* changed, never exceeds L, and once it has reached L no further page is
\* fetched, counted or saved, for any remaining source template.
C30_CatLimit ==
    /\ [](CatLimited => processed <= args_limit)
    /\ [][ (CatLimited /\ processed' # processed)
              => changed /\ processed' = processed + 1 ]_vars
    /\ [][ (CatLimited /\ processed >= args_limit)
              => /\ events' = events
                 /\ page_text' = page_text
                 /\ pc' \notin {"fetch", "fetched", "count", "counted",
                               "found"} ]_vars

\* the summary of a run that reached its limit before the last source
\* template was listed
C30_Witness ==
    /\ CatLimited /\ pc = "summary"
    /\ processed = args_limit
    /\ src < Len(source_templates)
============================================================================
